---------------------------- MODULE Spec2Model ----------------------------
(***************************************************************************)
(* A model of the PDF document writer of source/pdf/pdf-write.c:           *)
(* pdf_save_document and the stages it drives (sweep, dedupe, compaction,  *)
(* renumbering, linearization, two-pass emission, xref writing).           *)
(*                                                                         *)
(* A document is an xref table (object number -> entry) plus a trailer     *)
(* dictionary.  Object values are records [t, n, s, e]:                    *)
(*   t = "nil"   the C NULL pointer                                        *)
(*   t = "null"  the PDF null object                                       *)
(*   t = "int"   an integer, value n                                       *)
(*   t = "real"  a real number of integral value n                         *)
(*   t = "name"  a name, text s                                            *)
(*   t = "ref"   an indirect reference to object number n                  *)
(*   t = "arr"   an array, e = sequence of values                          *)
(*   t = "dict"  a dictionary, e = sequence of [k |-> key, v |-> value]    *)
(***************************************************************************)
EXTENDS Integers, Sequences, FiniteSets, TLC

VARIABLES
  pc,     \* the position of pdf_save_document
  opts,   \* the pdf_write_options passed in
  build,  \* how the program was compiled: [ndebug |-> assert() compiled out]
  doc,    \* the pdf_document
  ws,     \* the pdf_write_state and the locals of pdf_save_document
  out,    \* the output file
  err,    \* the error thrown, "" when none
  hist    \* history: the document as loaded, the padto calls made

vars == <<pc, opts, build, doc, ws, out, err, hist>>

---------------------------------------------------------------------------
(* Bounds of the model *)

\* largest number of pages in a generated page tree
MaxPages == 3
\* number of extra objects hung off the catalogue
MaxExtra == 2
\* number of nested calls of markobj the stack has room for
MaxDepth == 8

---------------------------------------------------------------------------
(* Program constants *)

USE_CATALOGUE == 2
USE_PAGE1 == 4
USE_SHARED == 8
USE_PARAMS == 16
USE_HINTS == 32
USE_PAGE_OBJECT == 64
USE_OTHER_OBJECTS == 128
USE_PAGE_SHIFT == 8
\* the three extra slots of every write-state array (xref_len + 3)
ExtraSlots == 3
\* INT_MIN, the placeholder of the linearization parameters
INT_MIN == (-2147483647) - 1
\* the generation forced on entry 0 when renumbering
GEN_MAX == 65535
\* the do_expand value that expands every stream
PDF_EXPAND_ALL == 0 - 1

---------------------------------------------------------------------------
(* Object values *)

Nil == [t |-> "nil", n |-> 0, s |-> "", e |-> <<>>]
Null == [t |-> "null", n |-> 0, s |-> "", e |-> <<>>]
IntV(v) == [t |-> "int", n |-> v, s |-> "", e |-> <<>>]
Name(x) == [t |-> "name", n |-> 0, s |-> x, e |-> <<>>]
\* a real number with integral value v
Real(v) == [t |-> "real", n |-> v, s |-> "", e |-> <<>>]
Ref(k) == [t |-> "ref", n |-> k, s |-> "", e |-> <<>>]
Arr(es) == [t |-> "arr", n |-> 0, s |-> "", e |-> es]
Dict(es) == [t |-> "dict", n |-> 0, s |-> "", e |-> es]
KV(key, val) == [k |-> key, v |-> val]

pdf_is_indirect(v) == v.t = "ref"
pdf_is_dict(v) == v.t = "dict"
pdf_is_array(v) == v.t = "arr"
pdf_is_null(v) == v.t = "null"

\* index of key in a dictionary's entries, 0 when absent
DictIndex(d, key) ==
  IF \E i \in 1..Len(d.e) : d.e[i].k = key
  THEN CHOOSE i \in 1..Len(d.e) : d.e[i].k = key /\ \A j \in 1..(i-1) : d.e[j].k # key
  ELSE 0

\* pdf_dict_get on a direct dictionary: the value, or Nil
pdf_dict_get(d, key) ==
  IF d.t = "dict" /\ DictIndex(d, key) # 0 THEN d.e[DictIndex(d, key)].v ELSE Nil

\* pdf_dict_put on a direct dictionary: replace, or append
pdf_dict_put(d, key, val) ==
  IF d.t # "dict" THEN d
  ELSE IF DictIndex(d, key) # 0
       THEN [d EXCEPT !.e[DictIndex(d, key)].v = val]
       ELSE [d EXCEPT !.e = Append(d.e, KV(key, val))]

\* pdf_dict_del on a direct dictionary
pdf_dict_del(d, key) ==
  IF d.t # "dict" \/ DictIndex(d, key) = 0 THEN d
  ELSE [d EXCEPT !.e = SubSeq(d.e, 1, DictIndex(d, key) - 1)
                       \o SubSeq(d.e, DictIndex(d, key) + 1, Len(d.e))]

pdf_name_eq(v, x) == v.t = "name" /\ v.s = x

---------------------------------------------------------------------------
(* The xref table *)

\* an xref entry: type 'n' / 'f' / 'o', generation, the parsed object, and
\* the stream state: stm = "none" (no stream), "file" (stream data in the
\* file, stm_ofs > 0), "empty" (stm_ofs < 0 and no buffer), "buf" (stm_buf);
\* raw identifies the raw bytes, rlen is their count, bin tells whether one
\* of them is binary.  fault tells what the lower layer throws for the
\* object: "none"; "load" and "load_later", pdf_load_object throws a generic
\* or a try-later error; "stream" and "stream_later", the loading of the
\* stream data does; "sweep_later" and "dedupe_later", pdf_is_stream throws
\* a try-later error when markref or removeduplicateobjs calls it;
\* "lpr_alloc", an allocation fails while lpr localises the page;
\* "mark_alloc", page_objects_list_insert fails to grow the list for it.
Entry(ty, g, o, st, r, l, b) ==
  [type |-> ty, gen |-> g, obj |-> o, stm |-> st, raw |-> r, rlen |-> l, bin |-> b,
   fault |-> "none"]

FreeEntry(g) == Entry("f", g, Null, "none", 0, 0, FALSE)
ObjEntry(o) == Entry("n", 0, o, "none", 0, 0, FALSE)
StmEntry(o, r, l, b) == Entry("n", 0, o, "file", r, l, b)

pdf_xref_len(x) == Cardinality(DOMAIN x)

InRange(x, num) == num > 0 /\ num < pdf_xref_len(x)

\* pdf_resolve_indirect of a reference to num: the object, Nil when the
\* number is out of range, the null object for a free entry; an object that
\* is itself a reference is followed, ten steps at most
Resolve(x, num) ==
  LET RECURSIVE follow(_, _)
      follow(k, sanity) ==
        IF sanity = 0 \/ ~(k >= 0 /\ k < pdf_xref_len(x)) THEN Nil
        ELSE IF x[k].type = "f" THEN Null
        ELSE IF x[k].obj.t = "ref" THEN follow(x[k].obj.n, sanity - 1)
        ELSE x[k].obj
  IN follow(num, 10)

ResolveVal(x, v) == IF v.t = "ref" THEN Resolve(x, v.n) ELSE v

pdf_is_stream(x, num) ==
  num >= 0 /\ num < pdf_xref_len(x) /\ x[num].type # "f" /\ x[num].stm # "none"

---------------------------------------------------------------------------
(* The documents of the model: a catalogue (1), a page tree node (2), np   *)
(* pages each with a content stream, an optional resource dictionary, an   *)
(* optional name tree, and MaxExtra extra objects taken from templates.    *)

ShareModes == {"none", "p0", "all", "twice"}

Templates == {"int", "dict", "dictref", "stm", "stm2", "stmref", "stmk",
              "objstm", "null", "free", "badref"}

ExtraKey(j) == <<"Xa", "Xb", "Xc", "Xd", "Xe">>[j]

idPage(k) == 3 + 2 * k
idCont(k) == 4 + 2 * k
idR(np) == 3 + 2 * np
idNames(np, share) == idR(np) + (IF share = "none" THEN 0 ELSE 1)
idExtra(np, share, names, j) == idNames(np, share) + (IF names THEN 1 ELSE 0) + j - 1
DocLen(np, share, names, ne) == idExtra(np, share, names, ne) + 1

RECURSIVE SeqOf(_, _, _)
\* <<f[lo], ..., f[hi]>>
SeqOf(f, lo, hi) == IF lo > hi THEN <<>> ELSE <<f[lo]>> \o SeqOf(f, lo + 1, hi)

PageDict(np, share, k) ==
  Dict(<<KV("Type", Name("Page")), KV("Parent", Ref(2)), KV("Contents", Ref(idCont(k)))>>
       \o (IF share = "all" \/ (share = "p0" /\ k = 0) \/ (share = "twice" /\ k = np - 1)
           THEN <<KV("Resources", Ref(idR(np)))>> ELSE <<>>)
       \o (IF share = "twice" /\ k = np - 1
           THEN <<KV("Aux", Ref(idR(np)))>> ELSE <<>>))

ExtraEntry(tmpl, other, n) ==
  CASE tmpl = "int" -> ObjEntry(IntV(8))
    [] tmpl = "dict" -> ObjEntry(Dict(<<KV("K", IntV(1))>>))
    [] tmpl = "dictref" -> ObjEntry(Dict(<<KV("K", Ref(other))>>))
    [] tmpl = "stm" -> StmEntry(Dict(<<KV("Length", IntV(8))>>), 1, 8, TRUE)
    [] tmpl = "stm2" -> StmEntry(Dict(<<KV("Length", IntV(8))>>), 2, 8, FALSE)
    [] tmpl = "stmref" -> StmEntry(Dict(<<KV("Length", Ref(other))>>), 1, 8, TRUE)
    [] tmpl = "stmk" -> StmEntry(Dict(<<KV("K", IntV(1))>>), 1, 8, TRUE)
    [] tmpl = "objstm" -> StmEntry(Dict(<<KV("Type", Name("ObjStm")), KV("Length", IntV(8))>>), 3, 8, TRUE)
    [] tmpl = "null" -> ObjEntry(Null)
    [] tmpl = "free" -> FreeEntry(0)
    [] tmpl = "badref" -> ObjEntry(Dict(<<KV("K", Ref(n + 5))>>))
    [] tmpl = "alias" -> ObjEntry(Ref(other))
    [] tmpl = "stmbad" -> StmEntry(Dict(<<KV("Length", Ref(n + 5))>>), 1, 8, TRUE)

\* the xref table of the document with np pages, resource sharing mode share,
\* a name tree when names, extras ex (a sequence of templates) of which the
\* first h are referenced from the catalogue
MkXref(np, share, names, ex, h) ==
  LET ne == Len(ex)
      n == DocLen(np, share, names, ne)
      ext(j) == idExtra(np, share, names, j)
      cat == Dict(<<KV("Type", Name("Catalog")), KV("Pages", Ref(2))>>
                  \o (IF names THEN <<KV("Names", Ref(idNames(np, share)))>> ELSE <<>>)
                  \o SeqOf([j \in 1..ne |-> KV(ExtraKey(j), Ref(ext(j)))], 1, h))
      kids == Arr(SeqOf([k \in 0..(np-1) |-> Ref(idPage(k))], 0, np - 1))
      pages == Dict(<<KV("Type", Name("Pages")), KV("Kids", kids), KV("Count", IntV(np)),
                      KV("Rotate", IntV(0))>>)
  IN [i \in 0..(n-1) |->
       IF i = 0 THEN FreeEntry(GEN_MAX)
       ELSE IF i = 1 THEN ObjEntry(cat)
       ELSE IF i = 2 THEN ObjEntry(pages)
       ELSE IF i < idR(np) THEN
            (IF (i - 3) % 2 = 0
             THEN ObjEntry(PageDict(np, share, (i - 3) \div 2))
             ELSE StmEntry(Dict(<<KV("Length", IntV(20))>>), 10 + ((i - 4) \div 2), 20,
                           ((i - 4) \div 2) % 2 = 1))
       ELSE IF share # "none" /\ i = idR(np) THEN ObjEntry(Dict(<<KV("F", IntV(1))>>))
       ELSE IF names /\ i = idNames(np, share) THEN ObjEntry(Dict(<<KV("D", IntV(2))>>))
       ELSE LET j == i - ext(1) + 1
            IN ExtraEntry(ex[j], ext((j % ne) + 1), n)]

MkTrailer(n) == Dict(<<KV("Size", IntV(n)), KV("Root", Ref(1))>>)

\* a loaded document; incr lists, newest first, the sets of object numbers
\* held by the incremental xref sections
MkDoc(x, nincr, incr) ==
  [xref |-> x, trailer |-> MkTrailer(pdf_xref_len(x)),
   freeze_updates |-> 0, num_incremental_sections |-> nincr, incr |-> incr,
   xref_base |-> 0,
   startxref |-> 900, has_xref_streams |-> FALSE, resources_localised |-> 0,
   dirty |-> 1, marks |-> {}]

\* pdf_write_options
Options(inc, g, lin, asc, defl) ==
  [do_incremental |-> inc, do_garbage |-> g, do_linear |-> lin, do_ascii |-> asc,
   do_deflate |-> defl, do_expand |-> 0, do_clean |-> FALSE,
   continue_on_error |-> FALSE]

---------------------------------------------------------------------------
(* Bit operations on use_list values (flag is a power of two) *)

HasFlag(u, flag) == (u \div flag) % 2 = 1
SetFlag(u, flag) == IF HasFlag(u, flag) THEN u ELSE u + flag
ClearFlag(u, flag) == IF HasFlag(u, flag) THEN u - flag ELSE u
\* u & USE_PAGE_MASK
PageBits(u) == (u \div 256) * 256
\* u >> USE_PAGE_SHIFT
PageOf(u) == u \div 256

Max(a, b) == IF a >= b THEN a ELSE b
Min(a, b) == IF a <= b THEN a ELSE b

---------------------------------------------------------------------------
(* Sweep: markref / markobj.  The traversal state st is                    *)
(* [use, xref, cap, oob, thrown, depth]: the use list, the object table    *)
(* (mutated in place by the C code), the allocated length of the use list, *)
(* whether an index outside it was written, the error that was rethrown    *)
(* ("stack" when the recursion ran out of stack), and the number of calls  *)
(* of markobj in progress.  A value of type "shared" is a direct pointer   *)
(* to the dictionary or array that is the object of number n.              *)

\* a variant that leaves an indirect /Length as it is
BakeLengthNever(st, num) == st

\* the "Bake in /Length" block of markref
BakeLength(st, num) ==
  IF ~pdf_is_stream(st.xref, num) THEN st
  ELSE LET len == pdf_dict_get(st.xref[num].obj, "Length")
       IN IF ~pdf_is_indirect(len) THEN st
          ELSE LET s1 == IF len.n >= 0 /\ len.n < st.cap
                         THEN [st EXCEPT !.use[len.n] = 0]
                         ELSE [st EXCEPT !.oob = TRUE]
                   r == Resolve(s1.xref, len.n)
                   \* pdf_dict_put keeps the object it is given: a dictionary
                   \* or an array is held by reference, not copied
                   kept == IF pdf_is_dict(r) \/ pdf_is_array(r)
                           THEN [t |-> "shared", n |-> len.n, s |-> "", e |-> <<>>]
                           ELSE r
               IN IF r.t = "nil" THEN s1
                  ELSE [s1 EXCEPT !.xref[num].obj = pdf_dict_put(@, "Length", kept)]

\* markref: [st, duff, go]; go tells that the resolved object is returned
\* for further marking
markref(st, num) ==
  IF num <= 0 \/ num >= pdf_xref_len(st.xref)
  THEN [st |-> st, duff |-> TRUE, go |-> FALSE]
  ELSE IF st.use[num] # 0
  THEN [st |-> st, duff |-> FALSE, go |-> FALSE]
  ELSE IF st.xref[num].fault = "sweep_later"
  THEN [st |-> [st EXCEPT !.use[num] = 1, !.thrown = "trylater"], duff |-> FALSE,
        go |-> FALSE]
  ELSE LET resolved(s2, o) ==
             IF o.t = "nil" \/ pdf_is_null(o)
             THEN [st |-> [s2 EXCEPT !.use[num] = 0], duff |-> TRUE, go |-> FALSE]
             ELSE [st |-> s2, duff |-> FALSE, go |-> TRUE]
           baked(s2) == resolved(s2, Resolve(s2.xref, num))
       IN baked(BakeLength([st EXCEPT !.use[num] = 1], num))

RECURSIVE markobj(_, _), markitems(_, _, _)
\* markobj: [st, duff, v], v being the (possibly rewritten) direct value
markobj(st, v) ==
  IF st.depth >= MaxDepth
  THEN [st |-> [st EXCEPT !.thrown = "stack"], duff |-> FALSE, v |-> v]
  ELSE IF v.t = "shared"
  THEN LET walked(c) ==
             [st |-> [c.st EXCEPT !.xref[v.n].obj = c.v], duff |-> FALSE, v |-> v]
       IN walked(markitems(st, st.xref[v.n].obj, 1))
  ELSE IF pdf_is_indirect(v)
  THEN LET walked(c) ==
             [st |-> [c.st EXCEPT !.xref[v.n].obj = c.v], duff |-> FALSE, v |-> v]
           referred(r) ==
             IF r.duff THEN [st |-> r.st, duff |-> TRUE, v |-> v]
             ELSE IF ~r.go THEN [st |-> r.st, duff |-> FALSE, v |-> v]
             ELSE walked(markitems(r.st, r.st.xref[v.n].obj, 1))
       IN referred(markref(st, v.n))
  ELSE LET direct(c) == [st |-> c.st, duff |-> FALSE, v |-> c.v]
       IN direct(markitems(st, v, 1))

\* the loops of markobj over the values of a dictionary or the elements of
\* an array, from index i on: duff references are replaced by null
markitems(st, o, i) ==
  IF ~(pdf_is_dict(o) \/ pdf_is_array(o)) \/ i > Len(o.e) \/ st.thrown # ""
  THEN [st |-> st, v |-> o]
  ELSE LET child == IF pdf_is_dict(o) THEN o.e[i].v ELSE o.e[i]
           put(nv) == IF pdf_is_dict(o) THEN [o EXCEPT !.e[i].v = nv]
                      ELSE [o EXCEPT !.e[i] = nv]
           rest(r) == markitems([r.st EXCEPT !.depth = st.depth],
                                put(IF r.duff THEN Null ELSE r.v), i + 1)
       IN rest(markobj([st EXCEPT !.depth = @ + 1], child))

---------------------------------------------------------------------------
(* Dedupe: removeduplicateobjs *)

RECURSIVE pdf_objcmp(_, _)
\* TRUE when the two values differ; dictionaries are compared by key, the
\* order of the keys not mattering
pdf_objcmp(a, b) ==
  IF a.t # b.t THEN TRUE
  ELSE IF a.t \in {"nil", "null"} THEN FALSE
  ELSE IF a.t \in {"int", "real", "ref"} THEN a.n # b.n
  ELSE IF a.t = "name" THEN a.s # b.s
  ELSE IF Len(a.e) # Len(b.e) THEN TRUE
  ELSE IF a.t = "arr" THEN \E i \in 1..Len(a.e) : pdf_objcmp(a.e[i], b.e[i])
  ELSE \E i \in 1..Len(a.e) :
          \/ DictIndex(b, a.e[i].k) = 0
          \/ pdf_objcmp(a.e[i].v, pdf_dict_get(b, a.e[i].k))

\* a variant that lets a stream and a non-stream be compared
StreamsDifferNever(streama, streamb, garbage) == FALSE

\* the "differ" decision taken from the two stream tests
StreamsDiffer(streama, streamb, garbage) ==
  IF streama /\ streamb /\ garbage >= 4 THEN FALSE ELSE streama \/ streamb

\* the raw-bytes comparison of two streams (lena == lenb && memcmp == 0)
SameRawBytes(ea, eb) == ea.rlen = eb.rlen /\ ea.raw = eb.raw

\* whether objects num and other are found to be duplicates
IsDuplicate(x, num, other, garbage) ==
  LET streama == pdf_is_stream(x, num)
      streamb == pdf_is_stream(x, other)
  IN \* an error thrown by pdf_is_stream: "Assume different"
     /\ x[num].fault # "dedupe_later" /\ x[other].fault # "dedupe_later"
     /\ ~StreamsDiffer(streama, streamb, garbage)
     /\ ~pdf_objcmp(Resolve(x, num), Resolve(x, other))
     /\ (streama /\ streamb) => SameRawBytes(x[num], x[other])

\* the error that the loading of the stream data of the entry throws
StreamLoadError(entry) ==
  IF entry.fault = "stream" THEN "generic"
  ELSE IF entry.fault = "stream_later" THEN "trylater" ELSE ""

\* the error rethrown by the comparison of the raw bytes of two streams,
\* "" when the comparison is not reached or throws nothing
RawLoadError(x, num, other, garbage) ==
  IF /\ x[num].fault # "dedupe_later" /\ x[other].fault # "dedupe_later"
     /\ pdf_is_stream(x, num) /\ pdf_is_stream(x, other)
     /\ ~StreamsDiffer(TRUE, TRUE, garbage)
     /\ ~pdf_objcmp(Resolve(x, num), Resolve(x, other))
  THEN IF StreamLoadError(x[num]) # "" THEN StreamLoadError(x[num])
       ELSE StreamLoadError(x[other])
  ELSE ""

RECURSIVE dedupe_other_highest(_, _, _, _, _)
\* a variant that keeps the highest numbered of two duplicates
dedupe_other_highest(st, x, garbage, num, other) ==
  IF other >= num \/ st.thrown # "" THEN st
  ELSE IF st.use[num] = 0 \/ st.use[other] = 0
  THEN dedupe_other_highest(st, x, garbage, num, other + 1)
  ELSE IF RawLoadError(x, num, other, garbage) # ""
  THEN [st EXCEPT !.thrown = RawLoadError(x, num, other, garbage)]
  ELSE IF ~IsDuplicate(x, num, other, garbage)
  THEN dedupe_other_highest(st, x, garbage, num, other + 1)
  ELSE LET newnum == Max(num, other)
       IN [st EXCEPT !.renumber[num] = newnum,
                     !.renumber[other] = newnum,
                     !.rev_renumber[newnum] = num,
                     !.use[Min(num, other)] = 0]

RECURSIVE dedupe_other(_, _, _, _, _)
\* the inner loop: compare num with the objects other.. preceding it
dedupe_other(st, x, garbage, num, other) ==
  IF other >= num \/ st.thrown # "" THEN st
  ELSE IF st.use[num] = 0 \/ st.use[other] = 0
  THEN dedupe_other(st, x, garbage, num, other + 1)
  ELSE IF RawLoadError(x, num, other, garbage) # ""
  THEN [st EXCEPT !.thrown = RawLoadError(x, num, other, garbage)]
  ELSE IF ~IsDuplicate(x, num, other, garbage)
  THEN dedupe_other(st, x, garbage, num, other + 1)
  ELSE LET newnum == Min(num, other)
       IN [st EXCEPT !.renumber[num] = newnum,
                     !.renumber[other] = newnum,
                     !.rev_renumber[newnum] = num,
                     !.use[Max(num, other)] = 0]

RECURSIVE dedupe_num(_, _, _, _)
dedupe_num(st, x, garbage, num) ==
  IF num >= pdf_xref_len(x) \/ st.thrown # "" THEN st
  ELSE dedupe_num(dedupe_other(st, x, garbage, num, 1), x, garbage, num + 1)

\* st = [use, renumber, rev_renumber, thrown]
removeduplicateobjs(st, x, garbage) == dedupe_num(st, x, garbage, 1)

---------------------------------------------------------------------------
(* Compaction: compactxref *)

\* a variant that leaves the unused objects where they are
CompactStepKeep(st, num) ==
  IF st.use[st.renumber[num]] = 0 THEN st
  ELSE IF st.renumber[num] = num
  THEN [st EXCEPT !.renumber[num] = st.newnum, !.newnum = st.newnum + 1]
  ELSE [st EXCEPT !.renumber[num] = st.renumber[st.renumber[num]]]

\* the body of the loop of compactxref for one num; st carries newnum
CompactStep(st, num) ==
  IF st.use[st.renumber[num]] = 0
  THEN [st EXCEPT !.renumber[num] = 0]
  ELSE IF st.renumber[num] = num
  THEN [st EXCEPT !.rev_renumber[st.newnum] = st.rev_renumber[num],
                  !.rev_gen[st.newnum] = st.rev_gen[num],
                  !.renumber[num] = st.newnum,
                  !.newnum = st.newnum + 1]
  ELSE [st EXCEPT !.renumber[num] = st.renumber[st.renumber[num]]]

RECURSIVE compact_loop(_, _, _)
compact_loop(st, num, xref_len) ==
  IF num >= xref_len THEN st ELSE compact_loop(CompactStep(st, num), num + 1, xref_len)

\* st = [use, renumber, rev_renumber, rev_gen]
compactxref(st, xref_len) ==
  LET r == compact_loop([use |-> st.use, renumber |-> st.renumber,
                         rev_renumber |-> st.rev_renumber, rev_gen |-> st.rev_gen,
                         newnum |-> 1], 1, xref_len)
  IN [use |-> r.use, renumber |-> r.renumber, rev_renumber |-> r.rev_renumber,
      rev_gen |-> r.rev_gen]

---------------------------------------------------------------------------
(* Renumbering: renumberobj / renumberobjs *)

\* the replacement of one indirect reference
RenumberRef(v, renumber, xref_len) ==
  IF v.n >= xref_len \/ v.n <= 0 \/ renumber[v.n] = 0 THEN Null ELSE Ref(renumber[v.n])

RECURSIVE renumberobj(_, _, _)
renumberobj(o, renumber, xref_len) ==
  IF pdf_is_dict(o)
  THEN [o EXCEPT !.e = [i \in 1..Len(o.e) |->
          IF pdf_is_indirect(o.e[i].v)
          THEN KV(o.e[i].k, RenumberRef(o.e[i].v, renumber, xref_len))
          ELSE KV(o.e[i].k, renumberobj(o.e[i].v, renumber, xref_len))]]
  ELSE IF pdf_is_array(o)
  THEN [o EXCEPT !.e = [i \in 1..Len(o.e) |->
          IF pdf_is_indirect(o.e[i])
          THEN RenumberRef(o.e[i], renumber, xref_len)
          ELSE renumberobj(o.e[i], renumber, xref_len)]]
  ELSE o

\* newlen of renumberobjs: the largest new number of a used object
NewLen(use, renumber, xref_len) ==
  LET s == {renumber[num] : num \in {k \in 1..(xref_len-1) : use[k] # 0}}
  IN IF s = {} THEN 0 ELSE CHOOSE m \in s : \A k \in s : k <= m

\* the old number moved into slot to of the new table: the last used num
\* (in ascending order) with renumber_map[num] = to; 0 when the slot is
\* never assigned
SlotSource(use, renumber, xref_len, to) ==
  LET s == {num \in 1..(xref_len-1) : use[num] # 0 /\ renumber[num] = to}
  IN IF s = {} THEN 0 ELSE CHOOSE m \in s : \A k \in s : k <= m

\* renumberobjs on d = [xref, trailer] with w = [use, renumber]:
\* the new [xref, trailer, use, renumber]
renumberobjs(d, w) ==
  LET xref_len == pdf_xref_len(d.xref)
      newlen == NewLen(w.use, w.renumber, xref_len)
      \* every entry whose object is kept has its references rewritten
      rewritten == [num \in 0..(xref_len-1) |->
                      IF w.renumber[num] = 0 THEN d.xref[num]
                      ELSE IF pdf_is_indirect(d.xref[num].obj)
                      THEN [d.xref[num] EXCEPT !.obj = Ref(w.renumber[num])]
                      ELSE [d.xref[num] EXCEPT !.obj = renumberobj(@, w.renumber, xref_len)]]
      newxref == [to \in 0..newlen |->
                    IF to = 0 THEN rewritten[0]
                    ELSE IF SlotSource(w.use, w.renumber, xref_len, to) = 0
                    THEN FreeEntry(0)
                    ELSE rewritten[SlotSource(w.use, w.renumber, xref_len, to)]]
      new_use_list == [to \in 0..(xref_len + ExtraSlots - 1) |->
                    IF to = 0 \/ SlotSource(w.use, w.renumber, xref_len, to) = 0 THEN 0
                    ELSE w.use[SlotSource(w.use, w.renumber, xref_len, to)]]
  IN [xref |-> newxref,
      trailer |-> renumberobj(d.trailer, w.renumber, xref_len),
      use |-> new_use_list,
      renumber |-> [num \in DOMAIN w.renumber |->
                      IF num >= 1 /\ num < xref_len THEN num ELSE w.renumber[num]]]

---------------------------------------------------------------------------
(* Linearization: page object lists *)

RECURSIVE BitOr(_, _)
\* a | b on non-negative integers
BitOr(a, b) ==
  IF a = 0 THEN b
  ELSE IF b = 0 THEN a
  ELSE (IF a % 2 = 1 \/ b % 2 = 1 THEN 1 ELSE 0) + 2 * BitOr(a \div 2, b \div 2)

\* a slot of page_object_lists->page[] that holds no page_objects yet
NullPage == [null |-> TRUE, object |-> <<>>, page_object_number |-> 0]

\* page_objects_insert: the object sequence is 1-based here (object[j] of
\* the C code is object[j+1])
page_objects_insert(po, i) == [po EXCEPT !.null = FALSE, !.object = Append(@, i)]

\* pol is the sequence of the page slots; pol[page+1] is page[page]
page_objects_list_insert(pol, page, object) ==
  LET ext == IF Len(pol) < page + 1
             THEN pol \o [i \in 1..(page + 1 - Len(pol)) |-> NullPage]
             ELSE pol
  IN [ext EXCEPT ![page + 1] = page_objects_insert(@, object)]

page_objects_list_set_page_object(pol, page, object) ==
  [pol EXCEPT ![page + 1].page_object_number = object]

\* exchange the elements a and b of a 0-based list
Swap(l, a, b) == [l EXCEPT ![a] = l[b], ![b] = l[a]]

RECURSIVE pos_bubble_up(_, _)
pos_bubble_up(l, j) ==
  IF j = 0 THEN l
  ELSE LET k == (j - 1) \div 2
       IN IF l[k] >= l[j] THEN l ELSE pos_bubble_up(Swap(l, k, j), k)

RECURSIVE pos_make_heap(_, _, _)
pos_make_heap(l, i, n) ==
  IF i >= n THEN l ELSE pos_make_heap(pos_bubble_up(l, i), i + 1, n)

RECURSIVE pos_bubble_down(_, _, _)
pos_bubble_down(l, j, i) ==
  LET k0 == (j + 1) * 2 - 1
  IN IF k0 > i - 1 THEN l
     ELSE LET k == IF k0 < i - 1 /\ l[k0] < l[k0 + 1] THEN k0 + 1 ELSE k0
          IN IF l[j] > l[k] THEN l ELSE pos_bubble_down(Swap(l, k, j), k, i)

RECURSIVE pos_sort(_, _)
pos_sort(l, i) ==
  IF i <= 0 THEN l ELSE pos_sort(pos_bubble_down(Swap(l, 0, i), 0, i), i - 1)

\* a 1-based sequence as a 0-based list and back
ToList(sq) == [i \in 0..(Len(sq) - 1) |-> sq[i + 1]]
ToSeq(l, n) == [i \in 1..n |-> l[i - 1]]

\* page_objects_sort: heap sort of po->object, ascending
page_objects_sort(po) ==
  LET n == Len(po.object)
  IN [po EXCEPT !.object = ToSeq(pos_sort(pos_make_heap(ToList(po.object), 1, n), n - 1), n)]

RECURSIVE pod_first(_, _, _)
\* first loop of page_objects_dedupe: the first i < n with object[i] = object[i+1]
pod_first(l, i, n) ==
  IF i < n /\ l[i] # l[i + 1] THEN pod_first(l, i + 1, n) ELSE i

RECURSIVE pod_rest(_, _, _, _)
\* second loop of page_objects_dedupe: [l, j]
pod_rest(l, j, i, n) ==
  IF i >= n THEN [l |-> l, j |-> j]
  ELSE IF l[j] # l[i] THEN pod_rest([l EXCEPT ![j + 1] = l[i]], j + 1, i + 1, n)
  ELSE pod_rest(l, j, i + 1, n)

\* page_objects_dedupe; n is po->len - 1
page_objects_dedupe(po) ==
  LET n == Len(po.object) - 1
      l == ToList(po.object)
      i == IF n > 0 THEN pod_first(l, 0, n) ELSE 0
      r == pod_rest(l, i, i + 1, n)
  IN IF Len(po.object) = 0 THEN po
     ELSE [po EXCEPT !.object = ToSeq(r.l, r.j + 1)]

page_objects_list_sort_and_dedupe(pol) ==
  [i \in 1..Len(pol) |-> page_objects_dedupe(page_objects_sort(pol[i]))]

page_objects_list_renumber(pol, renumber) ==
  [i \in 1..Len(pol) |->
     [pol[i] EXCEPT !.object = [j \in 1..Len(pol[i].object) |-> renumber[pol[i].object[j]]],
                    !.page_object_number = renumber[pol[i].page_object_number]]]

---------------------------------------------------------------------------
(* Linearization: the order of the sections *)

\* a variant that compares the flag words as numbers
order_ge_by_value(ui, uj) == ui >= uj

order_ge(ui, uj) ==
  IF ClearFlag(ui, USE_PAGE_OBJECT) = ClearFlag(uj, USE_PAGE_OBJECT)
  THEN ~HasFlag(ui, USE_PAGE_OBJECT)
  ELSE IF ui = 0 THEN TRUE
  ELSE IF uj = 0 THEN FALSE
  ELSE IF HasFlag(ui, USE_HINTS) THEN TRUE
  ELSE IF HasFlag(uj, USE_HINTS) THEN FALSE
  ELSE IF HasFlag(ui, USE_PAGE1) THEN TRUE
  ELSE IF HasFlag(uj, USE_PAGE1) THEN FALSE
  ELSE IF HasFlag(ui, USE_CATALOGUE) THEN TRUE
  ELSE IF HasFlag(uj, USE_CATALOGUE) THEN FALSE
  ELSE IF HasFlag(ui, USE_PARAMS) THEN TRUE
  ELSE IF HasFlag(uj, USE_PARAMS) THEN FALSE
  ELSE IF HasFlag(ui, USE_OTHER_OBJECTS) THEN TRUE
  ELSE IF HasFlag(uj, USE_OTHER_OBJECTS) THEN FALSE
  ELSE IF HasFlag(ui, USE_SHARED) THEN TRUE
  ELSE IF HasFlag(uj, USE_SHARED) THEN FALSE
  ELSE PageOf(ui) >= PageOf(uj)

RECURSIVE hs_bubble_up(_, _, _)
hs_bubble_up(list, val, j) ==
  IF j = 0 THEN list
  ELSE LET k == (j - 1) \div 2
       IN IF order_ge(val[list[k]], val[list[j]]) THEN list
          ELSE hs_bubble_up(Swap(list, k, j), val, k)

RECURSIVE hs_make_heap(_, _, _, _)
hs_make_heap(list, val, i, n) ==
  IF i >= n THEN list ELSE hs_make_heap(hs_bubble_up(list, val, i), val, i + 1, n)

RECURSIVE hs_bubble_down(_, _, _, _)
hs_bubble_down(list, val, j, i) ==
  LET k0 == (j + 1) * 2 - 1
  IN IF k0 > i - 1 THEN list
     ELSE LET k == IF k0 < i - 1 /\ order_ge(val[list[k0 + 1]], val[list[k0]])
                   THEN k0 + 1 ELSE k0
          IN IF order_ge(val[list[j]], val[list[k]]) THEN list
             ELSE hs_bubble_down(Swap(list, k, j), val, k, i)

RECURSIVE hs_sort(_, _, _)
hs_sort(list, val, i) ==
  IF i <= 0 THEN list
  ELSE hs_sort(hs_bubble_down(Swap(list, 0, i), val, 0, i), val, i - 1)

\* heap_sort(list, n, val, &order_ge) on a 0-based list of n elements
heap_sort(list, n, val) == hs_sort(hs_make_heap(list, val, 1, n), val, n - 1)

---------------------------------------------------------------------------
(* Linearization: marking the uses.  The state st is [use, pol, marks,     *)
(* thrown]: marks is the set of object numbers whose object carries the    *)
(* mark of pdf_mark_obj, thrown the error on its way out (every level      *)
(* unmarks in fz_always and rethrows).  x is the xref table, which the     *)
(* marking does not change.                                                *)

RECURSIVE mark_all(_, _, _, _, _), mark_all_items(_, _, _, _, _, _)
mark_all(st, x, val, flag, page) ==
  IF st.thrown # "" \/ (pdf_is_indirect(val) /\ val.n \in st.marks) THEN st
  ELSE LET \* page_objects_list_insert fails to grow the list
           failing == pdf_is_indirect(val) /\ page >= 0 /\ InRange(x, val.n)
                      /\ x[val.n].fault = "mark_alloc"
           s1 == IF pdf_is_indirect(val)
                 THEN [st EXCEPT
                         !.marks = @ \cup {val.n},
                         !.use[val.n] = IF PageBits(@) # 0 THEN BitOr(@, USE_SHARED)
                                        ELSE BitOr(@, flag),
                         !.pol = IF page >= 0 /\ ~failing
                                 THEN page_objects_list_insert(@, page, val.n) ELSE @,
                         !.thrown = IF failing THEN "memory" ELSE @]
                 ELSE st
           unmark(s2) == IF pdf_is_indirect(val) THEN [s2 EXCEPT !.marks = @ \ {val.n}]
                         ELSE s2
       IN unmark(mark_all_items(s1, x, ResolveVal(x, val), flag, page, 1))

mark_all_items(st, x, o, flag, page, i) ==
  IF ~(pdf_is_dict(o) \/ pdf_is_array(o)) \/ i > Len(o.e) \/ st.thrown # "" THEN st
  ELSE mark_all_items(mark_all(st, x, IF pdf_is_dict(o) THEN o.e[i].v ELSE o.e[i], flag, page),
                      x, o, flag, page, i + 1)

RECURSIVE mark_pages(_, _, _, _), mark_pages_items(_, _, _, _, _)
\* mark_pages: [st, pagenum]
mark_pages(st, x, val, pagenum) ==
  IF st.thrown # "" \/ (pdf_is_indirect(val) /\ val.n \in st.marks)
  THEN [st |-> st, pagenum |-> pagenum]
  ELSE LET o == ResolveVal(x, val)
           num == IF pdf_is_indirect(val) THEN val.n ELSE 0
           s1 == IF pdf_is_indirect(val) THEN [st EXCEPT !.marks = @ \cup {val.n}] ELSE st
           unmark(t) == IF pdf_is_indirect(val) THEN [t EXCEPT !.marks = @ \ {val.n}] ELSE t
           page_marked(s2) ==
             IF s2.thrown # "" THEN [st |-> s2, pagenum |-> pagenum]
             ELSE [st |-> [s2 EXCEPT
                             !.pol = page_objects_list_set_page_object(@, pagenum, num),
                             !.use[num] = BitOr(@, USE_PAGE_OBJECT)],
                   pagenum |-> pagenum + 1]
           node_marked(r2) ==
             [st |-> IF pdf_is_indirect(val) /\ r2.st.thrown = ""
                     THEN [r2.st EXCEPT !.use[num] = BitOr(@, USE_CATALOGUE)]
                     ELSE r2.st,
              pagenum |-> r2.pagenum]
           done(r) == [st |-> unmark(r.st), pagenum |-> r.pagenum]
       IN done(IF pdf_is_dict(o) /\ pdf_name_eq(pdf_dict_get(o, "Type"), "Page")
               THEN page_marked(mark_all(unmark(s1), x, val,
                                         IF pagenum = 0 THEN USE_PAGE1 ELSE pagenum * 256,
                                         pagenum))
               ELSE IF pdf_is_dict(o) \/ pdf_is_array(o)
               THEN node_marked(mark_pages_items(s1, x, o, pagenum, 1))
               ELSE [st |-> s1, pagenum |-> pagenum])

\* the loops of mark_pages over a page tree node's entries (only /Kids is
\* walked as pages) or over the elements of an array
mark_pages_items(st, x, o, pagenum, i) ==
  IF i > Len(o.e) \/ st.thrown # "" THEN [st |-> st, pagenum |-> pagenum]
  ELSE LET rest(r) == mark_pages_items(r.st, x, o, r.pagenum, i + 1)
       IN IF pdf_is_array(o) THEN rest(mark_pages(st, x, o.e[i], pagenum))
          ELSE IF o.e[i].k = "Kids" THEN rest(mark_pages(st, x, o.e[i].v, pagenum))
          ELSE mark_pages_items(mark_all(st, x, o.e[i].v, USE_CATALOGUE, -1), x, o,
                                pagenum, i + 1)

\* the section given to the value of key of the catalogue
RootSection(catalogue, key) ==
  IF key \in {"Names", "Dests"} THEN USE_OTHER_OBJECTS
  ELSE IF key = "Outlines"
  THEN (IF pdf_name_eq(pdf_dict_get(catalogue, "PageMode"), "UseOutlines")
        THEN USE_PAGE1 ELSE USE_OTHER_OBJECTS)
  ELSE USE_CATALOGUE

RECURSIVE mark_root_items(_, _, _, _)
\* the loop of mark_root: [st, page_count]
mark_root_items(r, x, o, i) ==
  IF ~pdf_is_dict(o) \/ i > Len(o.e) \/ r.st.thrown # "" THEN r
  ELSE IF o.e[i].k = "Pages"
  THEN LET counted(m) ==
             mark_root_items([st |-> m.st, page_count |-> m.pagenum], x, o, i + 1)
       IN counted(mark_pages(r.st, x, o.e[i].v, 0))
  ELSE mark_root_items([r EXCEPT !.st = mark_all(@, x, o.e[i].v, RootSection(o, o.e[i].k), -1)],
                       x, o, i + 1)

\* mark_root: [st, page_count]
mark_root(r, x, dict) ==
  IF pdf_is_indirect(dict) /\ dict.n \in r.st.marks THEN r
  ELSE LET s1 == IF pdf_is_indirect(dict)
                 THEN [r EXCEPT !.st.marks = @ \cup {dict.n},
                                !.st.use[dict.n] = BitOr(@, USE_CATALOGUE)]
                 ELSE r
           unmark(r2) == IF pdf_is_indirect(dict)
                         THEN [r2 EXCEPT !.st.marks = @ \ {dict.n}] ELSE r2
       IN unmark(mark_root_items(s1, x, ResolveVal(x, dict), 1))

RECURSIVE mark_trailer_items(_, _, _, _)
mark_trailer_items(r, x, trailer, i) ==
  IF i > Len(trailer.e) \/ r.st.thrown # "" THEN r
  ELSE IF trailer.e[i].k = "Root"
  THEN mark_trailer_items(mark_root(r, x, trailer.e[i].v), x, trailer, i + 1)
  ELSE mark_trailer_items([r EXCEPT !.st = mark_all(@, x, trailer.e[i].v, USE_CATALOGUE, -1)],
                          x, trailer, i + 1)

\* mark_trailer: [st, page_count]; the trailer is a direct dictionary
mark_trailer(st, x, trailer, page_count) ==
  mark_trailer_items([st |-> st, page_count |-> page_count], x, trailer, 1)

---------------------------------------------------------------------------
(* Linearization: pdf_localise_page_resources.  The page tree nodes of the *)
(* documents modelled are indirect objects; lpr works on [xref, marks].    *)

ResourceKeys == <<"ExtGState", "ColorSpace", "Pattern", "Shading", "XObject", "Font",
                  "ProcSet", "Properties">>
InheritedKeys == <<"MediaBox", "CropBox", "BleedBox", "TrimBox", "ArtBox", "Rotate">>

RECURSIVE lpr_merge(_, _, _)
\* the merging loop of lpr_inherit_res_contents: the keys of o that res
\* lacks are put into res
lpr_merge(res, o, i) ==
  IF i > Len(o.e) THEN res
  ELSE IF pdf_dict_get(res, o.e[i].k).t # "nil" THEN lpr_merge(res, o, i + 1)
  ELSE lpr_merge(pdf_dict_put(res, o.e[i].k, o.e[i].v), o, i + 1)

\* lpr_inherit_res_contents on the resolved dictionaries res and dict
lpr_inherit_res_contents(x, res, dict, text) ==
  LET o == pdf_dict_get(dict, text)
      r == pdf_dict_get(res, text)
      oo == ResolveVal(x, o)
  IN IF o.t = "nil" THEN res
     ELSE IF r.t = "nil"
     THEN (IF pdf_is_dict(oo) \/ pdf_is_array(oo) THEN pdf_dict_put(res, text, oo) ELSE res)
     ELSE IF pdf_is_dict(oo) THEN lpr_merge(res, oo, 1)
     ELSE res

RECURSIVE lpr_res_keys(_, _, _, _)
lpr_res_keys(x, res, dict, i) ==
  IF i > Len(ResourceKeys) THEN res
  ELSE lpr_res_keys(x, lpr_inherit_res_contents(x, res, dict, ResourceKeys[i]), dict, i + 1)

RECURSIVE lpr_inherit_res(_, _, _, _)
\* lpr_inherit_res: the resolved resources dictionary after the walk up
\* from node (a resolved dictionary)
lpr_inherit_res(x, node, depth, res) ==
  LET parent == ResolveVal(x, pdf_dict_get(node, "Parent"))
      o == ResolveVal(x, pdf_dict_get(parent, "Resources"))
  IN IF parent.t \in {"nil", "null"} \/ depth - 1 < 0 THEN res
     ELSE lpr_inherit_res(x, parent, depth - 1,
                          IF o.t = "nil" THEN res ELSE lpr_res_keys(x, res, o, 1))

RECURSIVE lpr_inherit(_, _, _, _)
\* lpr_inherit: the resolved value found on node or on an ancestor, or Nil
lpr_inherit(x, node, text, depth) ==
  LET o == pdf_dict_get(node, text)
      parent == ResolveVal(x, pdf_dict_get(node, "Parent"))
  IN IF o.t # "nil" THEN ResolveVal(x, o)
     ELSE IF depth - 1 >= 0 /\ ~(parent.t \in {"nil", "null"})
     THEN lpr_inherit(x, parent, text, depth - 1)
     ELSE Nil

RECURSIVE lpr_boxes(_, _, _, _)
\* the six lpr_inherit / pdf_dict_put pairs made for a page
lpr_boxes(x, page, depth, i) ==
  IF i > Len(InheritedKeys) THEN page
  ELSE LET put(r) == IF r.t = "nil" THEN page ELSE pdf_dict_put(page, InheritedKeys[i], r)
       IN lpr_boxes(x, put(lpr_inherit(x, page, InheritedKeys[i], depth)), depth, i + 1)

RECURSIVE DelKeys(_, _, _)
DelKeys(d, keys, i) ==
  IF i > Len(keys) THEN d ELSE DelKeys(pdf_dict_del(d, keys[i]), keys, i + 1)

\* what lpr does to a page: [xref] with the page num localised
lpr_page(x, num, depth) ==
  LET node == x[num].obj
      o == pdf_dict_get(node, "Resources")
      boxed(x1) == [x1 EXCEPT ![num].obj = lpr_boxes(x1, @, depth, 1)]
      \* the resources dictionary is changed in place, wherever it lives
      stored(node1, o1, res) ==
        boxed(IF pdf_is_indirect(o1)
              THEN (IF InRange(x, o1.n) /\ pdf_is_dict(x[o1.n].obj)
                    THEN [x EXCEPT ![o1.n].obj = res, ![num].obj = node1]
                    ELSE [x EXCEPT ![num].obj = node1])
              ELSE [x EXCEPT ![num].obj = pdf_dict_put(node1, "Resources", res)])
      inherited(node1, o1) ==
        stored(node1, o1, lpr_inherit_res(x, node1, depth, ResolveVal(x, o1)))
      with_resources(node1) == inherited(node1, pdf_dict_get(node1, "Resources"))
  IN with_resources(IF o.t = "nil" THEN pdf_dict_put(node, "Resources", Dict(<<>>))
                    ELSE node)

RECURSIVE lpr(_, _, _, _), lpr_kids(_, _, _, _, _)
\* lpr: [st, page] with st = [xref, marks, thrown]; pdf_unmark_obj comes
\* after the fz_catch that rethrows, so an error leaves the node marked
lpr(st, node, depth, page) ==
  IF ~pdf_is_indirect(node) \/ ~InRange(st.xref, node.n) THEN [st |-> st, page |-> page]
  ELSE IF node.n \in st.marks \/ st.thrown # "" THEN [st |-> st, page |-> page]
  ELSE LET s1 == [st EXCEPT !.marks = @ \cup {node.n}]
           o == Resolve(s1.xref, node.n)
           stripped(k) ==
             [st |-> [k.st EXCEPT !.xref[node.n].obj =
                        DelKeys(@, <<"Resources">> \o InheritedKeys, 1)],
              page |-> k.page]
           unmark(r) == [st |-> [r.st EXCEPT !.marks = @ \ {node.n}], page |-> r.page]
           walked(k) == IF k.st.thrown # "" THEN k ELSE unmark(stripped(k))
       IN IF pdf_name_eq(pdf_dict_get(o, "Type"), "Page")
          THEN (IF s1.xref[node.n].fault = "lpr_alloc"
                THEN [st |-> [s1 EXCEPT !.thrown = "memory"], page |-> page]
                ELSE unmark([st |-> [s1 EXCEPT !.xref = lpr_page(@, node.n, depth)],
                             page |-> page + 1]))
          ELSE walked(lpr_kids(s1, ResolveVal(s1.xref, pdf_dict_get(o, "Kids")),
                               depth, page, 1))

lpr_kids(st, kids, depth, page, i) ==
  IF ~pdf_is_array(kids) \/ i > Len(kids.e) \/ st.thrown # ""
  THEN [st |-> st, page |-> page]
  ELSE LET rest(r) == lpr_kids(r.st, kids, depth, r.page, i + 1)
       IN rest(lpr(st, kids.e[i], depth + 1, page))

\* pdf_localise_page_resources on d = the document: [doc, thrown]
pdf_localise_page_resources(d) ==
  IF d.resources_localised # 0 THEN [doc |-> d, thrown |-> ""]
  ELSE LET root == ResolveVal(d.xref, pdf_dict_get(d.trailer, "Root"))
           localised(r) ==
             [doc |-> [d EXCEPT !.xref = r.st.xref, !.marks = r.st.marks,
                                !.resources_localised = IF r.st.thrown = "" THEN 1 ELSE @],
              thrown |-> r.st.thrown]
       IN localised(lpr([xref |-> d.xref, marks |-> d.marks, thrown |-> ""],
                        pdf_dict_get(root, "Pages"), 0, 0))

---------------------------------------------------------------------------
(* Linearization: the new objects and the reordering *)

\* the linearization parameter dictionary as first created
ParamsDict ==
  Dict(<<KV("Linearized", Real(1)), KV("L", IntV(INT_MIN)),
         KV("H", Arr(<<IntV(INT_MIN), IntV(INT_MIN)>>)), KV("O", IntV(INT_MIN)),
         KV("E", IntV(INT_MIN)), KV("N", IntV(INT_MIN)), KV("T", IntV(INT_MIN))>>)

\* the primary hint stream dictionary as first created
HintDict ==
  Dict(<<KV("P", IntV(0)), KV("S", IntV(INT_MIN)), KV("Filter", Name("FlateDecode")),
         KV("Length", IntV(INT_MIN))>>)

\* the index of the first element of reorder[1..] that is the parameters
\* object
RECURSIVE SplitPoint(_, _, _)
SplitPoint(reorder, use, i) ==
  IF HasFlag(use[reorder[i]], USE_PARAMS) THEN i ELSE SplitPoint(reorder, use, i + 1)

\* linearize on the document d and the write state w: [doc, ws, thrown]
linearize(d, w) ==
  LET len0 == pdf_xref_len(d.xref)
      n == len0 + 2
      \* memset(use_list, 0, n * sizeof(int))
      use0 == [i \in DOMAIN w.use |-> IF i < n THEN 0 ELSE w.use[i]]
      \* add_linearization_objs
      params_num == len0
      hint_num == len0 + 1
      x2(d1) == [i \in 0..(n - 1) |->
                   IF i = params_num THEN ObjEntry(ParamsDict)
                   ELSE IF i = hint_num THEN Entry("n", 0, HintDict, "empty", 0, 0, FALSE)
                   ELSE d1.xref[i]]
      ren2 == [w.renumber EXCEPT ![params_num] = params_num, ![hint_num] = hint_num]
      rev2 == [w.rev_renumber EXCEPT ![params_num] = params_num, ![hint_num] = hint_num]
      gen2 == [w.gen EXCEPT ![params_num] = 0, ![hint_num] = 0]
      rgen2 == [w.rev_gen EXCEPT ![params_num] = 0, ![hint_num] = 0]
      \* the document and the write state once the objects are renumbered
      renumbered(d1, m, use2, reorder, ren3, r) ==
        [doc |-> [d1 EXCEPT !.xref = r.xref, !.trailer = r.trailer, !.marks = m.st.marks],
         ws |-> [w EXCEPT !.use = r.use, !.renumber = r.renumber,
                          !.rev_renumber = [i \in 0..(n - 1) |-> rev2[reorder[i]]],
                          !.rev_gen = [i \in 0..(n - 1) |-> rgen2[reorder[i]]],
                          !.gen = gen2,
                          !.start = SplitPoint(reorder, use2, 1),
                          !.page_count = m.page_count,
                          !.pol = page_objects_list_sort_and_dedupe(
                                    page_objects_list_renumber(m.st.pol, ren3)),
                          !.params_num = ren3[params_num],
                          !.hint_num = ren3[hint_num],
                          !.hints_length_attached = TRUE],
         thrown |-> ""]
      mapped(d1, m, use2, reorder, ren3) ==
        renumbered(d1, m, use2, reorder, ren3,
                   renumberobjs([xref |-> x2(d1), trailer |-> d1.trailer],
                                [use |-> use2, renumber |-> ren3]))
      reordered(d1, m, use2, reorder) ==
        mapped(d1, m, use2, reorder,
               [num \in DOMAIN ren2 |->
                  IF num < n THEN CHOOSE i \in 0..(n - 1) : reorder[i] = num ELSE ren2[num]])
      \* heap_sort(reorder+1, n-1, use_list, &order_ge)
      sorted(d1, m, use2, list) ==
        reordered(d1, m, use2, [i \in 0..(n - 1) |-> IF i = 0 THEN 0 ELSE list[i - 1]])
      added(d1, m, use2) ==
        sorted(d1, m, use2, heap_sort([i \in 0..(n - 2) |-> i + 1], n - 1, use2))
      \* an error leaves linearize where it is thrown
      failed(d1, marks, use1, kind) ==
        [doc |-> [d1 EXCEPT !.marks = marks], ws |-> [w EXCEPT !.use = use1],
         thrown |-> kind]
      marked(d1, m) ==
        IF m.st.thrown # "" THEN failed(d1, m.st.marks, m.st.use, m.st.thrown)
        ELSE added(d1, m, [m.st.use EXCEPT ![params_num] = USE_PARAMS,
                                           ![hint_num] = USE_HINTS])
      localised(l) ==
        IF l.thrown # "" THEN failed(l.doc, l.doc.marks, w.use, l.thrown)
        ELSE marked(l.doc, mark_trailer([use |-> use0, pol |-> <<>>, marks |-> l.doc.marks,
                                         thrown |-> ""],
                                        l.doc.xref, l.doc.trailer, w.page_count))
  IN localised(pdf_localise_page_resources(d))

---------------------------------------------------------------------------
(* Emission: the sizes of what is printed *)

RECURSIVE Digits(_)
\* the number of decimal digits of n >= 0
Digits(n) == IF n < 10 THEN 1 ELSE 1 + Digits(n \div 10)

\* the number of characters of printf("%d", n)
IntLen(n) ==
  IF n = INT_MIN THEN 11
  ELSE IF n < 0 THEN 1 + Digits(0 - n)
  ELSE Digits(n)

\* whether the text of a value starts / ends with a delimiter character
StartsDelim(v) == v.t \in {"name", "arr", "dict"}
EndsDelim(v) == v.t \in {"arr", "dict"}

RECURSIVE PrintLen(_), ArrItemsLen(_, _), DictItemsLen(_, _)
\* the number of characters pdf_print_obj writes for a value in tight
\* form, without the final newline
PrintLen(v) ==
  CASE v.t = "null" -> 4
    [] v.t = "nil" -> 4
    [] v.t = "int" -> IntLen(v.n)
    [] v.t = "real" -> IntLen(v.n)
    [] v.t = "name" -> 1 + Len(v.s)
    [] v.t = "ref" -> IntLen(v.n) + 4
    [] v.t = "arr" -> 2 + ArrItemsLen(v, 1)
    [] v.t = "dict" -> 4 + DictItemsLen(v, 1)

ArrItemsLen(v, i) ==
  IF i > Len(v.e) THEN 0
  ELSE (IF i > 1 /\ ~EndsDelim(v.e[i - 1]) /\ ~StartsDelim(v.e[i]) THEN 1 ELSE 0)
       + PrintLen(v.e[i]) + ArrItemsLen(v, i + 1)

DictItemsLen(v, i) ==
  IF i > Len(v.e) THEN 0
  ELSE 1 + Len(v.e[i].k) + (IF StartsDelim(v.e[i].v) THEN 0 ELSE 1)
       + PrintLen(v.e[i].v) + DictItemsLen(v, i + 1)

\* the length of hexbuf's output for n bytes
HexLen(n) == n * 2 + (n \div 32) + 2

\* the length of compress()'s output for n bytes: the zlib wrapper and one
\* block header around data taken to halve
DeflateLen(n) == (n \div 2) + 11

\* "%d %d obj\n"
ObjHeaderLen(num, gen) == IntLen(num) + 1 + IntLen(gen) + 5

\* "%PDF-x.y\n" and the binary comment line
FileHeaderLen == 9 + 8

---------------------------------------------------------------------------
(* Emission: objects.  The emission state e is                            *)
(*   [ws, out, padto, aborted, thrown, trailer, startxref]                *)
(* padto lists the <<pos, target>> of the padto calls made, aborted tells *)
(* that an assert() or a throw has stopped the emission, thrown is the    *)
(* error thrown.                                                          *)

\* the entry of num in the xref section at xref_base is set
pdf_xref_is_incremental(d, num) ==
  d.xref_base < Len(d.incr) /\ num \in d.incr[d.xref_base + 1]

\* the output pointer moved by len after item it was written where it was
Emit(e, it, len) ==
  [e EXCEPT !.out.items = Append(@, it), !.out.pos = @ + len]

padto(e, target, ndebug) ==
  IF e.aborted THEN e
  ELSE [e EXCEPT !.padto = Append(@, <<e.out.pos, target>>),
                 !.out.pos = Max(@, target),
                 !.aborted = ~ndebug /\ e.out.pos > target]

\* addhexfilter on a stream dictionary
addhexfilter(dict) ==
  LET f == pdf_dict_get(dict, "Filter")
      dp == pdf_dict_get(dict, "DecodeParms")
      newf == IF f.t = "name" THEN Arr(<<Name("ASCIIHexDecode"), f>>)
              ELSE IF pdf_is_array(f) THEN Arr(<<Name("ASCIIHexDecode")>> \o f.e)
              ELSE Name("ASCIIHexDecode")
      newdp == IF f.t = "name" /\ pdf_is_dict(dp) THEN Arr(<<Null, dp>>)
               ELSE IF pdf_is_array(f) /\ pdf_is_array(dp) THEN Arr(<<Null>> \o dp.e)
               ELSE dp
      d1 == pdf_dict_put(dict, "Filter", newf)
  IN IF dp.t = "nil" THEN d1 ELSE pdf_dict_put(d1, "DecodeParms", newdp)

\* the dictionary and the data copystream writes for a stream entry:
\* [dict, len, bin]
copystream(o, entry, obj_orig) ==
  LET deflate == o.do_deflate /\ pdf_dict_get(obj_orig, "Filter").t = "nil"
      d1 == IF deflate THEN pdf_dict_put(obj_orig, "Filter", Name("FlateDecode"))
            ELSE obj_orig
      len1 == IF deflate THEN DeflateLen(entry.rlen) ELSE entry.rlen
      bin1 == IF deflate THEN TRUE ELSE entry.bin
  IN IF o.do_ascii /\ bin1
     THEN [dict |-> pdf_dict_put(addhexfilter(d1), "Length", IntV(HexLen(len1))),
           len |-> HexLen(len1), bin |-> FALSE]
     ELSE [dict |-> d1, len |-> len1, bin |-> bin1]

\* the dictionary and the data expandstream writes: [dict, len, bin]; the
\* decoded data of the streams modelled is their raw data
expandstream(o, entry, obj_orig) ==
  LET d0 == pdf_dict_del(pdf_dict_del(obj_orig, "Filter"), "DecodeParms")
      deflate == o.do_deflate
      d1 == IF deflate THEN pdf_dict_put(d0, "Filter", Name("FlateDecode")) ELSE d0
      len1 == IF deflate THEN DeflateLen(entry.rlen) ELSE entry.rlen
      bin1 == IF deflate THEN TRUE ELSE entry.bin
      hex == o.do_ascii /\ bin1
      d2 == IF hex THEN addhexfilter(d1) ELSE d1
      len2 == IF hex THEN HexLen(len1) ELSE len1
  IN [dict |-> pdf_dict_put(d2, "Length", IntV(len2)), len |-> len2,
      bin |-> IF hex THEN FALSE ELSE bin1]

\* an object written to the output: its number and generation, the offset
\* of its header, the object printed, whether stream data follows, how much
ObjItem(num, gen, ofs, obj, stream, datalen) ==
  [k |-> "obj", num |-> num, gen |-> gen, ofs |-> ofs, obj |-> obj,
   stream |-> stream, datalen |-> datalen, text |-> "object"]

writeobject(e, o, x, num, gen, skip_xrefs) ==
  LET obj == x[num].obj
      type == pdf_dict_get(obj, "Type")
      hdr == ObjHeaderLen(num, gen)
      \* the fz_catch blocks: "%d %d obj\nnull\nendobj\n" and a count, or a
      \* rethrow
      caught(kind) ==
        IF kind # "trylater" /\ o.continue_on_error
        THEN Emit([e EXCEPT !.ws.errors = @ + 1],
                  [ObjItem(num, gen, e.out.pos, Null, FALSE, 0) EXCEPT
                     !.text = "placeholder"],
                  hdr + 5 + 7)
        ELSE [e EXCEPT !.aborted = TRUE, !.thrown = kind]
  IN IF x[num].fault \in {"load", "load_later"}
     THEN caught(IF x[num].fault = "load" THEN "generic" ELSE "trylater")
     ELSE IF pdf_is_dict(obj) /\ pdf_name_eq(type, "ObjStm")
     THEN [e EXCEPT !.ws.use[num] = 0]
     ELSE IF pdf_is_dict(obj) /\ skip_xrefs /\ pdf_name_eq(type, "XRef")
     THEN [e EXCEPT !.ws.use[num] = 0]
     ELSE IF ~pdf_is_stream(x, num)
     THEN Emit(e, ObjItem(num, gen, e.out.pos, obj, FALSE, 0),
               hdr + PrintLen(obj) + 1 + 8)
     ELSE IF x[num].stm = "empty"
     THEN Emit(e, ObjItem(num, gen, e.out.pos, obj, TRUE, 0),
               hdr + PrintLen(obj) + 1 + 25)
     ELSE IF StreamLoadError(x[num]) # ""
     THEN caught(StreamLoadError(x[num]))
     ELSE LET with_stream(c) ==
                Emit(e, ObjItem(num, gen, e.out.pos, c.dict, TRUE, c.len),
                     hdr + PrintLen(c.dict) + 1 + 7 + c.len + 19)
          IN with_stream(IF o.do_expand # 0 THEN expandstream(o, x[num], obj)
                         ELSE copystream(o, x[num], obj))

dowriteobject(e, o, d, num, pass, ndebug) ==
  IF e.aborted THEN e
  ELSE
  LET entry == d.xref[num]
      g1 == IF entry.type \in {"f", "n"} THEN entry.gen
            ELSE IF entry.type = "o" THEN 0 ELSE e.ws.gen[num]
      g2 == IF o.do_garbage >= 2 THEN (IF num = 0 THEN GEN_MAX ELSE 0) ELSE g1
      e1 == [e EXCEPT !.ws.gen[num] = g2]
  IN IF o.do_garbage # 0 /\ e1.ws.use[num] = 0 THEN e1
     ELSE IF entry.type \in {"n", "o"}
     THEN LET e2 == IF pass > 0 THEN padto(e1, e1.ws.ofs[num], ndebug) ELSE e1
          IN IF e2.aborted THEN e2
             ELSE IF ~o.do_incremental \/ pdf_xref_is_incremental(d, num)
             THEN writeobject([e2 EXCEPT !.ws.ofs[num] = e2.out.pos], o, d.xref, num, g2, TRUE)
             ELSE e2
     ELSE [e1 EXCEPT !.ws.use[num] = 0]

---------------------------------------------------------------------------
(* Emission: cross-reference sections *)

\* a variant that prints every entry as in use
XrefLineAllInUse(w, num) ==
  [num |-> num, inuse |-> TRUE, ofs |-> w.ofs[num], gen |-> w.gen[num]]

\* one line of an xref subsection, as writexrefsubsect prints it
XrefLine(w, num) ==
  [num |-> num, inuse |-> w.use[num] # 0, ofs |-> w.ofs[num], gen |-> w.gen[num]]

RECURSIVE XrefSubsects(_, _, _, _, _)
\* the subsections writexref prints for [from, to): all of it, or in an
\* incremental save the maximal runs of incremental entries; each is
\* [from, to]
XrefSubsects(o, d, subfrom, to, acc) ==
  IF ~o.do_incremental THEN <<[from |-> subfrom, to |-> to]>>
  ELSE IF subfrom >= to THEN acc
  ELSE IF ~pdf_xref_is_incremental(d, subfrom) THEN XrefSubsects(o, d, subfrom + 1, to, acc)
  ELSE LET subto == CHOOSE t \in (subfrom + 1)..to :
                       /\ \A k \in subfrom..(t - 1) : pdf_xref_is_incremental(d, k)
                       /\ t = to \/ ~pdf_xref_is_incremental(d, t)
       IN XrefSubsects(o, d, subto, to, Append(acc, [from |-> subfrom, to |-> subto]))

RECURSIVE SubsectLines(_, _, _), SubsectsLen(_, _, _), LinesLen(_, _, _)
\* the lines of the subsections subs[i..]
SubsectLines(w, subs, i) ==
  IF i > Len(subs) THEN <<>>
  ELSE [j \in 1..(subs[i].to - subs[i].from) |-> XrefLine(w, subs[i].from + j - 1)]
       \o SubsectLines(w, subs, i + 1)

\* the characters of the lines "%010Zd %05d n \n" of the entries from..to-1
LinesLen(w, from, to) ==
  IF from >= to THEN 0
  ELSE 10 + 1 + Max(5, IntLen(w.gen[from])) + 4 + LinesLen(w, from + 1, to)

\* "%d %d\n" and the lines of each subsection
SubsectsLen(w, subs, i) ==
  IF i > Len(subs) THEN 0
  ELSE IntLen(subs[i].from) + 1 + IntLen(subs[i].to - subs[i].from) + 1
       + LinesLen(w, subs[i].from, subs[i].to) + SubsectsLen(w, subs, i + 1)

\* a variant that leaves /Prev of an incremental trailer as it was loaded
XrefTrailerKeepPrev(o, d, trailer, to, first, main_xref_offset) ==
  IF o.do_incremental
  THEN pdf_dict_put(trailer, "Size", IntV(pdf_xref_len(d.xref)))
  ELSE Dict(<<KV("Size", IntV(to))>>)

\* the trailer dictionary writexref prints
XrefTrailer(o, d, trailer, to, first, main_xref_offset) ==
  IF o.do_incremental
  THEN pdf_dict_put(pdf_dict_put(trailer, "Size", IntV(pdf_xref_len(d.xref))),
                    "Prev", IntV(d.startxref))
  ELSE LET t0 == Dict(<<KV("Size", IntV(to))>>)
           copy(t, key) == IF first /\ pdf_dict_get(trailer, key).t # "nil"
                           THEN pdf_dict_put(t, key, pdf_dict_get(trailer, key)) ELSE t
           t3 == copy(copy(copy(t0, "Info"), "Root"), "ID")
       IN IF main_xref_offset # 0 THEN pdf_dict_put(t3, "Prev", IntV(main_xref_offset)) ELSE t3

\* writexref: the section becomes an item of the output; in an incremental
\* save the document's own trailer and startxref are changed
writexref(e, o, d, from, to, first, main_xref_offset, startxref) ==
  IF e.aborted THEN e
  ELSE
  LET e1 == [e EXCEPT !.ws.first_xref_entry_offset = e.out.pos + 5]
      section(subs, tr) ==
        Emit(IF o.do_incremental THEN [e1 EXCEPT !.trailer = tr, !.startxref = startxref]
             ELSE e1,
             [k |-> "xref", ofs |-> e.out.pos, first |-> first, subs |-> subs,
              lines |-> SubsectLines(e.ws, subs, 1), trailer |-> tr,
              startxref |-> startxref],
             5 + SubsectsLen(e.ws, subs, 1) + 1 + 8 + PrintLen(tr) + 1 + 1
             + 10 + IntLen(startxref) + 1 + 6)
  IN section(XrefSubsects(o, d, from, to, <<>>),
             XrefTrailer(o, [d EXCEPT !.startxref = e.startxref], e.trailer, to, first,
                         main_xref_offset))

---------------------------------------------------------------------------
(* Emission: writeobjects *)

RECURSIVE WriteRange(_, _, _, _, _, _, _, _)
\* dowriteobject for num = lo..hi in turn; shift tells to add
\* hintstream_len to ofs_list[num] first
WriteRange(e, o, d, lo, hi, pass, shift, ndebug) ==
  IF lo > hi \/ e.aborted THEN e
  ELSE LET e1 == IF shift THEN [e EXCEPT !.ws.ofs[lo] = @ + e.ws.hintstream_len] ELSE e
       IN WriteRange(dowriteobject(e1, o, d, lo, pass, ndebug), o, d, lo + 1, hi, pass,
                     shift, ndebug)

\* the offset up to which the first-page section is padded in pass 1
FirstPageEnd(w) ==
  IF w.start = 1 THEN w.main_xref_offset ELSE w.ofs[1] + w.hintstream_len

writeobjects(e, o, d, pass, ndebug) ==
  LET xref_len == pdf_xref_len(d.xref)
      \* the file header, unless the save is incremental
      header(a) == IF ~o.do_incremental
                   THEN Emit(a, [k |-> "header", ofs |-> a.out.pos], FileHeaderLen) ELSE a
      \* dowriteobject(doc, opts, start, pass)
      first_object(a) == dowriteobject(a, o, d, a.ws.start, pass, ndebug)
      first_xref(a) == writexref(a, o, d, a.ws.start, xref_len, TRUE,
                                 a.ws.main_xref_offset, 0)
      at_first_xref(a) == IF pass = 0 THEN [a EXCEPT !.ws.first_xref_offset = a.out.pos]
                          ELSE padto(a, a.ws.first_xref_offset, ndebug)
      linear_xref(a) == IF o.do_linear THEN first_xref(at_first_xref(a)) ELSE a
      \* the objects start+1 .. xref_len-1
      upper(a) == WriteRange(a, o, d, a.ws.start + 1, xref_len - 1, pass, FALSE, ndebug)
      pad_first_page(a) == IF o.do_linear /\ pass = 1
                           THEN padto(a, FirstPageEnd(a.ws), ndebug) ELSE a
      \* the objects 1 .. start-1
      lower(a) == WriteRange(a, o, d, 1, a.ws.start - 1, pass, pass = 1, ndebug)
  IN lower(pad_first_page(upper(linear_xref(first_object(header(e))))))

---------------------------------------------------------------------------
(* The primary hint stream *)

SetMin(S) == CHOOSE m \in S : \A k \in S : m <= k
SetMax(S) == CHOOSE m \in S : \A k \in S : k <= m

RECURSIVE Log2From(_, _)
Log2From(x, i) == IF 2 ^ i <= x /\ i < 31 THEN Log2From(x, i + 1) ELSE i

\* my_log2: the number of bits of x, 0 when 1<<i overflows
my_log2(x) ==
  IF x <= 0 THEN 0
  ELSE IF Log2From(x, 0) >= 31 THEN 0
  ELSE Log2From(x, 0)

\* the bytes taken by a run of bits ended by fz_write_buffer_pad
PadBytes(bits) == (bits + 7) \div 8

\* "max" of the first loop of make_page_offset_hints: where object i ends
ObjEnd(w, xref_len, i) ==
  IF i = w.start - 1 \/ (w.start = 1 /\ i = xref_len - 1) THEN w.main_xref_offset
  ELSE IF i = xref_len - 1 THEN w.ofs[1]
  ELSE w.ofs[i + 1]

\* the page an object is counted under in the first loop, -1 for none
HintPage(u) ==
  IF HasFlag(u, USE_SHARED) THEN 0 - 1
  ELSE IF HasFlag(u, USE_CATALOGUE) \/ HasFlag(u, USE_HINTS) \/ HasFlag(u, USE_PARAMS)
  THEN 0 - 1
  ELSE IF HasFlag(u, USE_PAGE1) THEN 0
  ELSE IF u = 0 THEN 0 - 1
  ELSE PageOf(u)

\* whether the first loop takes the object's length into the shared lengths
HintLengthCounted(u) ==
  \/ HasFlag(u, USE_SHARED)
  \/ /\ ~(HasFlag(u, USE_CATALOGUE) \/ HasFlag(u, USE_HINTS) \/ HasFlag(u, USE_PARAMS))
     /\ HasFlag(u, USE_PAGE1)

\* the number of elements of a page's object list that refer to a shared
\* object (for page 0: to a first-page object)
NumShared(w, p) ==
  Cardinality({j \in 1..Len(w.pol[p + 1].object) :
                 IF p = 0 THEN HasFlag(w.use[w.pol[p + 1].object[j]], USE_PAGE1)
                 ELSE HasFlag(w.use[w.pol[p + 1].object[j]], USE_SHARED)})

RECURSIVE SumShared(_, _)
\* the number of shared object identifiers written for the pages p..
SumShared(w, p) ==
  IF p >= w.page_count THEN 0 ELSE NumShared(w, p) + SumShared(w, p + 1)

\* make_page_offset_hints: [len, shared_offset, assert_failed]; len is the
\* length of the buffer built, shared_offset the value of
\* hints_shared_offset, assert_failed tells that assert(max > min) fails
make_page_offset_hints(w, xref_len) ==
  LET idx == 1..(xref_len - 1)
      pages == 0..(w.page_count - 1)
      objlen(i) == ObjEnd(w, xref_len, i) - w.ofs[i]
      shared == {i \in idx : HasFlag(w.use[i], USE_SHARED)}
      min_shared_object == IF shared = {} THEN 0 ELSE SetMin(shared)
      max_shared_object == IF shared = {} THEN 0 ELSE SetMax(shared)
      lens == {objlen(i) : i \in {k \in idx : HintLengthCounted(w.use[k])}}
      min_shared_length == SetMin(lens \cup {w.file_len})
      max_shared_length == SetMax(lens \cup {0})
      objs(p) == {i \in idx : HintPage(w.use[i]) = p}
      num_objects(p) == Cardinality(objs(p))
      max_ofs(p) == SetMax({ObjEnd(w, xref_len, i) : i \in objs(p)} \cup {0})
      min_ofs(p) == SetMin({w.ofs[i] : i \in objs(p)} \cup {0})
      page_length(p) == max_ofs(p) - min_ofs(p)
      min_objs_per_page == SetMin({num_objects(p) : p \in pages})
      max_objs_per_page == SetMax({num_objects(p) : p \in pages})
      min_page_length == SetMin({page_length(p) : p \in pages})
      max_page_length == SetMax({page_length(p) : p \in pages})
      max_shared_object_refs == SetMax({NumShared(w, p) : p \in pages \ {0}}
                                       \cup {NumShared(w, 0)})
      objs_per_page_bits == my_log2(max_objs_per_page - min_objs_per_page)
      page_len_bits == my_log2(max_page_length - min_page_length)
      shared_object_bits == my_log2(max_shared_object_refs)
      shared_entries == max_shared_object - min_shared_object + NumShared(w, 0)
      shared_object_id_bits == my_log2(shared_entries)
      shared_length_bits == my_log2(max_shared_length - min_shared_length)
      refs == SumShared(w, 0)
      page_table == PadBytes(288 + w.page_count * objs_per_page_bits)
                    + PadBytes(w.page_count * page_len_bits)
                    + PadBytes(w.page_count * shared_object_bits)
                    + PadBytes(refs * shared_object_id_bits)
                    + PadBytes(w.page_count * page_len_bits)
      shared_table == PadBytes(192 + (NumShared(w, 0)
                                      + (max_shared_object - min_shared_object + 1))
                                     * shared_length_bits)
                      + PadBytes(Max(shared_entries, 0))
  IN [len |-> page_table + shared_table,
      shared_offset |-> page_table,
      assert_failed |-> \E i \in idx : ~(ObjEnd(w, xref_len, i) > w.ofs[i])]

\* pdf_update_stream(doc, obj, buf, 0): the buffer becomes the stream of
\* the entry, /Length is replaced, /Filter and /DecodeParms are removed
pdf_update_stream(entry, len) ==
  [entry EXCEPT !.stm = "buf", !.raw = 0, !.rlen = len, !.bin = TRUE,
                !.obj = pdf_dict_del(pdf_dict_del(pdf_dict_put(@, "Length", IntV(len)),
                                                  "Filter"), "DecodeParms")]

\* make_hint_stream and the adjustments that follow it in
\* pdf_save_document: [xref, ws, assert_failed]
make_hint_stream(o, x, w) ==
  LET xref_len == pdf_xref_len(x)
      attached(h, len) ==
        [xref |-> [x EXCEPT ![xref_len - 1] = pdf_update_stream(@, h.len)],
         ws |-> [w EXCEPT !.hints_shared_offset = h.shared_offset,
                          !.hintstream_len = len,
                          !.file_len = @ + len,
                          !.main_xref_offset = @ + len,
                          !.hints_length_attached = FALSE],
         assert_failed |-> h.assert_failed]
      built(h) ==
        attached(h, IF o.do_ascii THEN h.len * 2 + 1 + ((h.len * 2 + 63) \div 64)
                    ELSE h.len)
  IN built(make_page_offset_hints(w, xref_len))

\* update_linearization_params: the integers held by the parameter
\* dictionary and by the hint stream dictionary are set in place
update_linearization_params(x, w) ==
  LET xref_len == pdf_xref_len(x)
      offset == FirstPageEnd(w)
      h == Arr(<<IntV(w.ofs[xref_len - 1]), IntV(offset - w.ofs[xref_len - 1])>>)
      put(d, key, val) == IF pdf_dict_get(d, key).t = "nil" THEN d ELSE pdf_dict_put(d, key, val)
      params == put(put(put(put(put(put(x[w.params_num].obj,
                  "L", IntV(w.file_len)), "H", h), "O", IntV(w.pol[1].object[1])),
                  "E", IntV(offset)), "N", IntV(w.page_count)),
                  "T", IntV(w.first_xref_entry_offset + w.hintstream_len))
      hints0 == put(x[w.hint_num].obj, "S", IntV(w.hints_shared_offset))
      hints == IF w.hints_length_attached
               THEN put(hints0, "Length", IntV(w.hintstream_len)) ELSE hints0
  IN [x EXCEPT ![w.params_num].obj = params, ![w.hint_num].obj = hints]

---------------------------------------------------------------------------
(* Initial states *)

\* the value of an array slot that was allocated and never written
Garbage == 0 - 1

\* /Length of a stream refers to an integer object or to nothing usable
WellFormed(ex) ==
  \A j \in 1..Len(ex) :
     ex[j] = "stmref" => ex[(j % Len(ex)) + 1] \in {"int", "null", "free"}

NoWriteState ==
  [alloc |-> FALSE, cap |-> 0, use |-> <<>>, ofs |-> <<>>, gen |-> <<>>,
   renumber |-> <<>>, rev_renumber |-> <<>>, rev_gen |-> <<>>, oob |-> FALSE,
   start |-> 0, first_xref_offset |-> 0, main_xref_offset |-> 0,
   first_xref_entry_offset |-> 0, file_len |-> 0, hints_shared_offset |-> 0,
   hintstream_len |-> 0, page_count |-> 0, pol |-> <<>>, xref_len |-> 0,
   params_num |-> 0, hint_num |-> 0, hints_length_attached |-> FALSE, errors |-> 0]

NoOutput == [open |-> FALSE, pos |-> 0, items |-> <<>>, file_size |-> 0]

\* garbage collection of a one-page document with every choice of extras,
\* the search for duplicates among three extras, a document with an object
\* that is a reference to another one ("5 0 obj 6 0 R endobj"), and
\* documents with cycles of references
GCFamily ==
  {[d |-> MkDoc(MkXref(1, "none", FALSE, ex, h), 0, <<>>),
    o |-> Options(FALSE, g, FALSE, FALSE, FALSE), nd |-> FALSE] :
     ex \in {e \in [1..MaxExtra -> Templates] : WellFormed(e)},
     h \in 0..MaxExtra, g \in 0..4}
  \cup
  {[d |-> MkDoc(MkXref(1, "none", FALSE, ex, 3), 0, <<>>),
    o |-> Options(FALSE, g, FALSE, FALSE, FALSE), nd |-> FALSE] :
     ex \in {<<"int", "int", "int">>, <<"int", "dict", "int">>, <<"stm", "stm", "stm">>,
             <<"stm", "stmk", "stm">>, <<"dict", "dict", "int">>},
     g \in {3, 4}}
  \cup
  {[d |-> MkDoc(MkXref(1, "none", FALSE, <<"alias", "int", "dict">>, h), 0, <<>>),
    o |-> Options(FALSE, g, FALSE, FALSE, FALSE), nd |-> FALSE] :
     h \in {1, 3}, g \in 0..4}
  \cup
  \* a stream whose /Length is the stream itself, a dictionary that refers to
  \* itself, a ring of two dictionaries, a stream whose /Length is a
  \* reference to a number that no object has
  {[d |-> MkDoc(MkXref(1, "none", FALSE, ex, h), 0, <<>>),
    o |-> Options(FALSE, g, lin, FALSE, FALSE), nd |-> FALSE] :
     ex \in {<<"stmref">>, <<"dictref">>, <<"dictref", "dictref">>, <<"stmbad">>},
     h \in {0, 1}, g \in {0, 1, 2}, lin \in BOOLEAN}

LinTemplates == {"int", "objstm", "stmref"}
LinModes == {<<FALSE, FALSE>>, <<TRUE, FALSE>>, <<TRUE, TRUE>>}

\* linearized saves of documents of 1..MaxPages pages
LinFamily ==
  {[d |-> MkDoc(MkXref(np, share, names, ex, MaxExtra), 0, <<>>),
    o |-> Options(FALSE, g, TRUE, m[1], m[2]), nd |-> nd] :
     np \in 1..MaxPages, share \in ShareModes, names \in BOOLEAN,
     ex \in {e \in [1..MaxExtra -> LinTemplates] : WellFormed(e)},
     g \in {0, 1, 3}, m \in LinModes, nd \in BOOLEAN}

\* the incremental sections of the documents saved incrementally
IncrSections ==
  {<<>>, <<{}>>, <<{5}>>, <<{1, 6}>>, <<{0, 3, 4}>>, <<{2, 5}, {5, 6}>>, <<{6}, {1, 2, 4}>>,
   <<{3}, {}, {4, 5}>>}

\* incremental saves, with and without the options that conflict with them
IncFamily ==
  {[d |-> MkDoc(MkXref(1, "none", FALSE, <<"int", "stm">>, 2), Len(incr), incr),
    o |-> Options(TRUE, g, lin, FALSE, FALSE), nd |-> FALSE] :
     incr \in IncrSections, g \in {0, 1, 2}, lin \in BOOLEAN}
  \cup
  \* incremental saves of documents whose xref sections are xref streams
  {[d |-> [MkDoc(MkXref(1, "none", FALSE, <<"int", "stm">>, 2), Len(incr), incr)
             EXCEPT !.has_xref_streams = TRUE],
    o |-> Options(TRUE, 0, FALSE, FALSE, FALSE), nd |-> FALSE] :
     incr \in {<<{5}>>, <<{2, 5}, {5, 6}>>, <<{3}, {}, {4, 5}>>, <<{6}, {}, {3}, {1}>>}}

StreamTemplates == {"int", "stm", "stm2", "stmref"}

\* plain saves with every choice of the stream options
StreamFamily ==
  {[d |-> MkDoc(MkXref(1, "none", FALSE, ex, MaxExtra), 0, <<>>),
    o |-> [Options(FALSE, g, FALSE, asc, defl) EXCEPT !.do_expand = x], nd |-> FALSE] :
     ex \in {e \in [1..MaxExtra -> StreamTemplates] : WellFormed(e)},
     g \in {0, 1}, asc \in BOOLEAN, defl \in BOOLEAN, x \in {0, PDF_EXPAND_ALL}}

\* a document as MkDoc makes it, object num having generation gen
WithGen(d, num, gen) == [d EXCEPT !.xref[num].gen = gen]

\* linearized saves of a document with an object of generation 1
GenFamily ==
  {[d |-> WithGen(MkDoc(MkXref(1, "none", FALSE, <<"int", "int">>, 2), 0, <<>>), num, 1),
    o |-> Options(FALSE, g, TRUE, FALSE, FALSE), nd |-> FALSE] :
     num \in {4, 5}, g \in {0, 1, 2}}

\* saves of a document of which the page, or one or two of the three streams
\* (the page's contents and two extras with the same dictionary and data),
\* have a fault
FaultFamily ==
  {[d |-> [MkDoc(MkXref(1, "none", FALSE, <<"stm", "stm">>, 2), 0, <<>>) EXCEPT
             !.xref = [num \in DOMAIN @ |->
                         IF num \in nums THEN [@[num] EXCEPT !.fault = f] ELSE @[num]]],
    o |-> [Options(FALSE, g, lin, FALSE, FALSE) EXCEPT !.continue_on_error = coe],
    nd |-> FALSE] :
     nums \in {{3}, {4}, {5}, {6}, {4, 5}, {5, 6}},
     f \in {"load", "load_later", "stream", "stream_later", "sweep_later", "dedupe_later",
            "lpr_alloc", "mark_alloc"},
     g \in {0, 1, 4}, lin \in BOOLEAN, coe \in BOOLEAN}

Families ==
  GCFamily \cup LinFamily \cup IncFamily \cup StreamFamily \cup GenFamily \cup FaultFamily

Init ==
  \E f \in Families :
    /\ pc = "entry"
    /\ opts = f.o
    /\ build = [ndebug |-> f.nd]
    /\ doc = f.d
    /\ ws = NoWriteState
    /\ out = [NoOutput EXCEPT !.file_size = 1000]
    /\ err = ""
    /\ hist = [doc |-> f.d, padto |-> <<>>]

---------------------------------------------------------------------------
(* pdf_save_document, up to the emission *)

\* a variant that forgets the linearisation check
ConfigConflictGarbageOnly(o) == o.do_incremental /\ o.do_garbage # 0

\* the two option checks made on entry
ConfigConflict(o) ==
  (o.do_incremental /\ o.do_garbage # 0) \/ (o.do_incremental /\ o.do_linear)

\* a variant that never takes the save for empty
NothingToWriteNever(o, d) == FALSE

\* "If no changes, nothing to write"
NothingToWrite(o, d) == o.do_incremental /\ d.num_incremental_sections = 0

\* entry: option checks, freeze, the nothing-to-write return
SaveEntry ==
  /\ pc = "entry"
  /\ IF ConfigConflict(opts)
     THEN /\ pc' = "thrown"
          /\ err' = "config"
          /\ UNCHANGED doc
     ELSE /\ doc' = [doc EXCEPT !.freeze_updates = 1]
          /\ pc' = IF NothingToWrite(opts, doc) THEN "returned" ELSE "open"
          /\ UNCHANGED err
  /\ UNCHANGED <<opts, build, ws, out, hist>>

\* fz_new_output_with_path succeeds; an incremental save appends
OpenOutput ==
  /\ pc = "open"
  /\ out' = IF opts.do_incremental
            THEN [out EXCEPT !.open = TRUE, !.pos = out.file_size + 1]
            ELSE [out EXCEPT !.open = TRUE, !.pos = 0, !.file_size = 0]
  /\ pc' = "init"
  /\ UNCHANGED <<opts, build, doc, ws, err, hist>>

\* fz_new_output_with_path returns NULL: the throw precedes fz_try
OpenFails ==
  /\ pc = "open"
  /\ pc' = "thrown"
  /\ err' = "open"
  /\ UNCHANGED <<opts, build, doc, ws, out, hist>>

initialise_write_state(x) ==
  LET xref_len == pdf_xref_len(x)
      idx == 0..(xref_len + ExtraSlots - 1)
  IN [NoWriteState EXCEPT
        !.alloc = TRUE,
        !.cap = xref_len + ExtraSlots,
        !.start = 0,
        !.main_xref_offset = INT_MIN,
        !.use = [num \in idx |-> IF num < xref_len THEN 0 ELSE Garbage],
        !.ofs = [num \in idx |-> IF num < xref_len THEN 0 ELSE Garbage],
        !.gen = [num \in idx |-> 0],
        !.renumber = [num \in idx |-> IF num < xref_len THEN num ELSE Garbage],
        !.rev_renumber = [num \in idx |-> IF num < xref_len THEN num ELSE Garbage],
        !.rev_gen = [num \in idx |-> IF num < xref_len THEN x[num].gen ELSE Garbage],
        !.xref_len = xref_len]

InitWriteState ==
  /\ pc = "init"
  /\ ws' = initialise_write_state(doc.xref)
  /\ pc' = "sweep"
  /\ UNCHANGED <<opts, build, doc, out, err, hist>>

\* sweep and mark from the trailer, or mark everything
Sweep ==
  /\ pc = "sweep"
  /\ IF opts.do_garbage >= 1 \/ opts.do_linear
     THEN LET swept(r) ==
                /\ ws' = [ws EXCEPT !.use = r.st.use, !.oob = r.st.oob]
                /\ doc' = [doc EXCEPT !.xref = r.st.xref, !.trailer = r.v]
                /\ pc' = IF r.st.thrown = "stack" THEN "crashed"
                         ELSE IF r.st.thrown # "" THEN "caught" ELSE "dedupe"
                /\ err' = r.st.thrown
          IN swept(markobj([use |-> ws.use, xref |-> doc.xref, cap |-> ws.cap,
                            oob |-> ws.oob, thrown |-> "", depth |-> 0], doc.trailer))
     ELSE /\ ws' = [ws EXCEPT !.use = [num \in DOMAIN ws.use |->
                                         IF num < ws.xref_len THEN 1 ELSE ws.use[num]]]
          /\ pc' = "dedupe"
          /\ UNCHANGED <<doc, err>>
  /\ UNCHANGED <<opts, build, out, hist>>

Dedupe ==
  /\ pc = "dedupe"
  /\ IF opts.do_garbage >= 3
     THEN LET deduped(r) ==
                /\ ws' = [ws EXCEPT !.use = r.use, !.renumber = r.renumber,
                                    !.rev_renumber = r.rev_renumber]
                /\ pc' = IF r.thrown # "" THEN "caught" ELSE "compact"
                /\ err' = r.thrown
          IN deduped(removeduplicateobjs([use |-> ws.use, renumber |-> ws.renumber,
                                          rev_renumber |-> ws.rev_renumber,
                                          thrown |-> ""],
                                         doc.xref, opts.do_garbage))
     ELSE pc' = "compact" /\ UNCHANGED <<ws, err>>
  /\ UNCHANGED <<opts, build, doc, out, hist>>

Compact ==
  /\ pc = "compact"
  /\ IF opts.do_garbage >= 2 \/ opts.do_linear
     THEN LET r == compactxref(ws, pdf_xref_len(doc.xref))
          IN ws' = [ws EXCEPT !.renumber = r.renumber,
                              !.rev_renumber = r.rev_renumber,
                              !.rev_gen = r.rev_gen]
     ELSE UNCHANGED ws
  /\ pc' = "renumber"
  /\ UNCHANGED <<opts, build, doc, out, err, hist>>

\* renumberobjs, then the truncation of the local xref_len
Renumber ==
  /\ pc = "renumber"
  /\ IF opts.do_garbage >= 2 \/ opts.do_linear
     THEN LET r == renumberobjs(doc, ws)
          IN /\ doc' = [doc EXCEPT !.xref = r.xref, !.trailer = r.trailer]
             /\ ws' = [ws EXCEPT !.use = r.use, !.renumber = r.renumber]
     ELSE UNCHANGED <<doc, ws>>
  /\ pc' = "truncate"
  /\ UNCHANGED <<opts, build, out, err, hist>>

RECURSIVE TruncLen(_, _)
\* while (xref_len > 0 && !use_list[xref_len-1]) xref_len--
TruncLen(use, xref_len) ==
  IF xref_len > 0 /\ use[xref_len - 1] = 0 THEN TruncLen(use, xref_len - 1) ELSE xref_len

Truncate ==
  /\ pc = "truncate"
  /\ IF (opts.do_garbage >= 2 \/ opts.do_linear) /\ ~opts.do_incremental
     THEN ws' = [ws EXCEPT !.xref_len = TruncLen(ws.use, ws.xref_len)]
     ELSE UNCHANGED ws
  /\ pc' = "linearize"
  /\ UNCHANGED <<opts, build, doc, out, err, hist>>

Linearize ==
  /\ pc = "linearize"
  /\ IF opts.do_linear
     THEN LET linearized(r) ==
                /\ doc' = r.doc /\ ws' = r.ws
                /\ pc' = IF r.thrown # "" THEN "caught" ELSE "write"
                /\ err' = r.thrown
          IN linearized(linearize(doc, ws))
     ELSE pc' = "write" /\ UNCHANGED <<doc, ws, err>>
  /\ UNCHANGED <<opts, build, out, hist>>

\* the emission state at the start of an emission step; xref and incr are
\* the object table and the incremental sections as pdf_create_object
\* extends them
EmissionState ==
  [ws |-> ws, out |-> out, padto |-> hist.padto, aborted |-> FALSE, thrown |-> "",
   trailer |-> doc.trailer, startxref |-> doc.startxref,
   xref |-> doc.xref, incr |-> doc.incr]

\* the state variables after an emission step that leads to pc value next;
\* a failed assert() stops the program, a throw leads to the fz_always block
Emitted(e, next) ==
  /\ ws' = e.ws
  /\ out' = e.out
  /\ hist' = [hist EXCEPT !.padto = e.padto]
  /\ pc' = IF e.thrown # "" THEN "caught" ELSE IF e.aborted THEN "aborted" ELSE next
  /\ err' = IF e.thrown # "" THEN e.thrown ELSE err

\* the first pass of a full save: writeobjects(pass 0)
WritePass0 ==
  /\ pc = "write" /\ ~opts.do_incremental
  /\ Emitted(writeobjects(EmissionState, opts, doc, 0, build.ndebug), "freelist")
  /\ UNCHANGED <<opts, build, doc>>

\* writexrefstream: pdf_create_object makes the object of the xref stream,
\* the next number of the document, in the xref section at xref_base; its
\* slots of the use and ofs lists are written whatever their length is; the
\* entries are the data of the stream, which is written as an object, and
\* "startxref" follows
writexrefstream(e, o, d, from, to, first, main_xref_offset, startxref) ==
  IF e.aborted THEN e
  ELSE
  LET num == pdf_xref_len(d.xref)
      first_xref_entry_offset == e.out.pos
      copy(t, key) == IF first /\ pdf_dict_get(e.trailer, key).t # "nil"
                      THEN pdf_dict_put(t, key, pdf_dict_get(e.trailer, key)) ELSE t
      t3 == copy(copy(copy(Dict(<<>>), "Info"), "Root"), "ID")
      t4 == IF o.do_incremental THEN copy(t3, "Encrypt") ELSE t3
      t5 == pdf_dict_put(t4, "Size", IntV(to + 1))
      t6 == IF o.do_incremental THEN pdf_dict_put(t5, "Prev", IntV(e.startxref))
            ELSE IF main_xref_offset # 0
            THEN pdf_dict_put(t5, "Prev", IntV(main_xref_offset)) ELSE t5
      t7 == pdf_dict_put(pdf_dict_put(t6, "Type", Name("XRef")),
                         "W", Arr(<<IntV(1), IntV(4), IntV(1)>>))
      \* the document with the new object in it
      grown(entry) ==
        [d EXCEPT !.xref = [k \in 0..num |-> IF k = num THEN entry ELSE d.xref[k]],
                  !.incr[d.xref_base + 1] = @ \cup {num}]
      subs == XrefSubsects(o, grown(ObjEntry(t7)), from, to + 1, <<>>)
      index == Arr(SeqOf([j \in 1..(2 * Len(subs)) |->
                            IF j % 2 = 1 THEN IntV(subs[(j + 1) \div 2].from)
                            ELSE IntV(subs[j \div 2].to - subs[j \div 2].from)],
                         1, 2 * Len(subs)))
      w1 == IF num < e.ws.cap
            THEN [e.ws EXCEPT !.first_xref_entry_offset = first_xref_entry_offset,
                              !.use[num] = 1, !.ofs[num] = first_xref_entry_offset]
            ELSE [e.ws EXCEPT !.first_xref_entry_offset = first_xref_entry_offset,
                              !.oob = TRUE]
      lines == SubsectLines(w1, subs, 1)
      \* six bytes for each entry
      dg == grown(pdf_update_stream(ObjEntry(pdf_dict_put(t7, "Index", index)),
                                    6 * Len(lines)))
      finished(e3) ==
        IF e3.aborted THEN e3
        ELSE Emit(e3, [k |-> "startxref", ofs |-> e3.out.pos, num |-> num, subs |-> subs,
                       lines |-> lines, startxref |-> startxref],
                  10 + IntLen(startxref) + 1 + 6)
  IN finished(writeobject([e EXCEPT !.ws = w1, !.xref = dg.xref, !.incr = dg.incr,
                                    !.startxref = IF o.do_incremental THEN startxref
                                                  ELSE @],
                          o, dg.xref, num, 0, FALSE))

RECURSIVE write_sections(_, _, _, _, _, _)
\* the loop over the incremental sections, from the i-th on: xref_base
\* selects the section, its objects and its xref are written
write_sections(e, o, d, i, xref_len, ndebug) ==
  IF i >= d.num_incremental_sections \/ e.aborted THEN e
  ELSE LET db == [d EXCEPT !.xref_base = d.num_incremental_sections - i - 1,
                           !.xref = e.xref, !.incr = e.incr]
           \* the incremental entries that were not written are freed
           freed(e1) ==
             [e1 EXCEPT
                !.ws.gen = [num \in DOMAIN @ |->
                   IF num < xref_len /\ e1.ws.use[num] = 0
                      /\ pdf_xref_is_incremental(db, num) THEN GEN_MAX ELSE @[num]],
                !.ws.ofs = [num \in DOMAIN @ |->
                   IF num < xref_len /\ e1.ws.use[num] = 0
                      /\ pdf_xref_is_incremental(db, num) THEN 0 ELSE @[num]],
                !.ws.first_xref_offset = e1.out.pos]
           section(e2) ==
             IF db.has_xref_streams
             THEN writexrefstream(e2, o, db, 0, xref_len, TRUE, 0, e2.ws.first_xref_offset)
             ELSE writexref(e2, o, db, 0, xref_len, TRUE, 0, e2.ws.first_xref_offset)
       IN write_sections(section(freed(writeobjects(e, o, db, 0, ndebug))), o, d, i + 1,
                         xref_len, ndebug)

\* the incremental save: every incremental section in turn, oldest first;
\* writexref clears has_xref_streams, writexrefstream leaves it set
WriteIncremental ==
  /\ pc = "write" /\ opts.do_incremental
  /\ LET saved(e3) ==
           /\ Emitted(e3, "finish")
           /\ doc' = [doc EXCEPT !.trailer = e3.trailer, !.startxref = e3.startxref,
                                 !.xref = e3.xref, !.incr = e3.incr, !.xref_base = 0]
     IN saved(write_sections(EmissionState, opts, doc, 0, ws.xref_len, build.ndebug))
  /\ UNCHANGED <<opts, build>>

RECURSIVE FreeListFrom(_, _, _, _)
\* the construction of the linked list of free slots, from num on
FreeListFrom(w, num, lastfree, xref_len) ==
  IF num >= xref_len THEN w
  ELSE IF w.use[num] = 0
  THEN FreeListFrom([w EXCEPT !.gen[num] = @ + 1, !.ofs[lastfree] = num],
                    num + 1, num, xref_len)
  ELSE FreeListFrom(w, num + 1, lastfree, xref_len)

FreeList ==
  /\ pc = "freelist"
  /\ ws' = FreeListFrom(ws, 0, 0, ws.xref_len)
  /\ pc' = "xref"
  /\ UNCHANGED <<opts, build, doc, out, err, hist>>

\* a save that is not linearized ends with the one xref section
WriteXref ==
  /\ pc = "xref" /\ ~opts.do_linear
  /\ LET e1 == [EmissionState EXCEPT !.ws.first_xref_offset = out.pos]
     IN Emitted(writexref(e1, opts, doc, 0, ws.xref_len, TRUE, 0, e1.ws.first_xref_offset),
                "finish")
  /\ doc' = [doc EXCEPT !.has_xref_streams = FALSE]
  /\ UNCHANGED <<opts, build>>

\* a variant that takes the offset of the first xref for that of the main one
MainXref0AtFirstXref ==
  /\ pc = "xref" /\ opts.do_linear
  /\ LET e1 == [EmissionState EXCEPT !.ws.main_xref_offset = ws.first_xref_offset]
         measured(e2) == Emitted([e2 EXCEPT !.ws.file_len = e2.out.pos], "hints")
     IN measured(writexref(e1, opts, doc, 0, ws.start, FALSE, 0, ws.first_xref_offset))
  /\ doc' = [doc EXCEPT !.has_xref_streams = FALSE]
  /\ UNCHANGED <<opts, build>>

\* linearized: the main xref of pass 0, written to measure the file
MainXref0 ==
  /\ pc = "xref" /\ opts.do_linear
  /\ LET e1 == [EmissionState EXCEPT !.ws.main_xref_offset = out.pos]
         measured(e2) == Emitted([e2 EXCEPT !.ws.file_len = e2.out.pos], "hints")
     IN measured(writexref(e1, opts, doc, 0, ws.start, FALSE, 0, ws.first_xref_offset))
  /\ doc' = [doc EXCEPT !.has_xref_streams = FALSE]
  /\ UNCHANGED <<opts, build>>

\* linearized: the hint stream is built and the parameters are filled in
MakeHints ==
  /\ pc = "hints"
  /\ LET hinted(r) ==
           IF r.assert_failed /\ ~build.ndebug
           THEN pc' = "aborted" /\ UNCHANGED <<doc, ws>>
           ELSE /\ ws' = r.ws
                /\ doc' = [doc EXCEPT !.xref = update_linearization_params(r.xref, r.ws)]
                /\ pc' = "pass1"
     IN hinted(make_hint_stream(opts, doc.xref, ws))
  /\ UNCHANGED <<opts, build, out, err, hist>>

\* a variant that ends the file with a startxref of 0
FinalStartxrefZero(w) == 0

\* the startxref written after the main xref, at the end of the file
FinalStartxref(w) == w.first_xref_offset

\* linearized: the second pass over the file, and the main xref
WritePass1 ==
  /\ pc = "pass1"
  /\ LET e0 == [EmissionState EXCEPT !.out.pos = 0, !.out.items = <<>>,
                                     !.out.file_size = out.pos]
         pad_main_xref(e1) == padto(e1, e1.ws.main_xref_offset, build.ndebug)
         main_xref(e2) ==
           writexref(e2, opts, doc, 0, e2.ws.start, FALSE, 0, FinalStartxref(e2.ws))
     IN Emitted(main_xref(pad_main_xref(writeobjects(e0, opts, doc, 1, build.ndebug))),
                "finish")
  /\ UNCHANGED <<opts, build, doc>>

\* the output is closed, the write state is freed, the document unfrozen
Finish ==
  /\ pc = "finish"
  /\ out' = [out EXCEPT !.open = FALSE, !.file_size = Max(@, out.pos)]
  /\ doc' = [doc EXCEPT !.dirty = 0, !.freeze_updates = 0]
  /\ ws' = [ws EXCEPT !.alloc = FALSE]
  /\ pc' = "done"
  /\ UNCHANGED <<opts, build, err, hist>>

\* an error thrown inside the fz_try: the fz_always block, then the rethrow
Unwind ==
  /\ pc = "caught"
  /\ doc' = [doc EXCEPT !.freeze_updates = 0]
  /\ ws' = [ws EXCEPT !.alloc = FALSE]
  /\ pc' = "thrown"
  /\ UNCHANGED <<opts, build, out, err, hist>>

Next ==
  \/ SaveEntry
  \/ OpenOutput
  \/ OpenFails
  \/ InitWriteState
  \/ Sweep
  \/ Dedupe
  \/ Compact
  \/ Renumber
  \/ Truncate
  \/ Linearize
  \/ WritePass0
  \/ WriteIncremental
  \/ FreeList
  \/ WriteXref
  \/ MainXref0
  \/ MakeHints
  \/ WritePass1
  \/ Finish
  \/ Unwind

Spec == Init /\ [][Next]_vars

---------------------------------------------------------------------------
(* Properties *)

Collecting == opts.do_garbage >= 1 \/ opts.do_linear
Renumbering == opts.do_garbage >= 2 \/ opts.do_linear

\* C3: a save asking for do_incremental together with a non-zero do_garbage
\* or with do_linear has failed with the option error as soon as it has left
\* the entry point: the output is neither opened nor written, freeze_updates
\* is not set, the document is as it was and no write state is allocated.
C3_ConflictFailsFirst ==
  (pc # "entry" /\ opts.do_incremental /\ (opts.do_garbage # 0 \/ opts.do_linear))
    => /\ pc = "thrown" /\ err = "config"
       /\ ~out.open /\ out.items = <<>>
       /\ doc.freeze_updates = 0
       /\ doc = hist.doc
       /\ ~ws.alloc

C3_Witness ==
  pc = "thrown" /\ err = "config" /\ opts.do_incremental /\ opts.do_linear
  /\ opts.do_garbage = 0 /\ doc.num_incremental_sections = 1

RECURSIVE RefsOf(_)
\* the object numbers referred to from a value
RefsOf(v) ==
  IF pdf_is_indirect(v) THEN {v.n}
  ELSE IF pdf_is_dict(v) THEN UNION {RefsOf(v.e[i].v) : i \in 1..Len(v.e)}
  ELSE IF pdf_is_array(v) THEN UNION {RefsOf(v.e[i]) : i \in 1..Len(v.e)}
  ELSE {}

RECURSIVE Closure(_, _)
\* the object numbers reachable from the set s through the objects of x
Closure(x, s) ==
  LET more == UNION {RefsOf(x[i].obj) : i \in {k \in s : k >= 0 /\ k < pdf_xref_len(x)}}
  IN IF more \subseteq s THEN s ELSE Closure(x, s \cup more)

Reachable(x, trailer) == Closure(x, RefsOf(trailer))

\* C4: when the sweep has run, an object number in [1,N) has a non-zero use
\* entry exactly when it is reachable from the trailer through the
\* references the sweep has left in place.
C4_UseIffReachable ==
  (pc = "dedupe" /\ Collecting) =>
     \A i \in 1..(pdf_xref_len(doc.xref) - 1) :
        (ws.use[i] # 0) <=> (i \in Reachable(doc.xref, doc.trailer))

\* C5: after removeduplicateobjs and after compactxref, two distinct objects
\* that share a non-zero renumber target are structurally equal, either both
\* streams or neither, and two streams only when do_garbage >= 4 and their
\* raw bytes are equal.
C5_MergedAreEqual ==
  (pc \in {"compact", "renumber"} /\ opts.do_garbage >= 3) =>
     \A i, j \in 1..(pdf_xref_len(doc.xref) - 1) :
        (i # j /\ ws.renumber[i] # 0 /\ ws.renumber[i] = ws.renumber[j]) =>
           /\ ~pdf_objcmp(Resolve(doc.xref, i), Resolve(doc.xref, j))
           /\ pdf_is_stream(doc.xref, i) <=> pdf_is_stream(doc.xref, j)
           /\ pdf_is_stream(doc.xref, i) =>
                 /\ opts.do_garbage >= 4
                 /\ doc.xref[i].rlen = doc.xref[j].rlen
                 /\ doc.xref[i].raw = doc.xref[j].raw

\* two streams have been merged, and the compaction has run
C5_Witness ==
  /\ pc = "renumber" /\ opts.do_garbage >= 4
  /\ \E i, j \in 1..(pdf_xref_len(doc.xref) - 1) :
        /\ i # j /\ ws.renumber[i] # 0 /\ ws.renumber[i] = ws.renumber[j]
        /\ pdf_is_stream(doc.xref, i)

\* the largest new number given to an object that is still in use
LargestLive ==
  LET s == {ws.renumber[i] : i \in {k \in 1..(pdf_xref_len(doc.xref) - 1) : ws.use[k] # 0}}
  IN IF s = {} THEN 0 ELSE CHOOSE m \in s : \A k \in s : k <= m

\* C6: when compactxref has run, every renumber[i] is at most i and is 0 or
\* lies in [1,N'), N' being one more than the largest new number of a live
\* object; renumberobjs then installs an xref of length N'.
C6_CompactRange ==
  [][(pc = "renumber" /\ Renumbering) =>
       /\ \A i \in 1..(pdf_xref_len(doc.xref) - 1) :
             /\ ws.renumber[i] <= i
             /\ ws.renumber[i] = 0 \/ (ws.renumber[i] >= 1 /\ ws.renumber[i] < 1 + LargestLive)
       /\ pdf_xref_len(doc'.xref) = 1 + LargestLive]_vars

\* the compaction dropped an object and moved another one down
C6_Witness ==
  /\ pc = "truncate" /\ Renumbering
  /\ pdf_xref_len(doc.xref) < pdf_xref_len(hist.doc.xref) - 1

\* the positions of the objects and of the xref sections in the output
ObjItems == {j \in 1..Len(out.items) : out.items[j].k = "obj"}
XrefItems == {j \in 1..Len(out.items) : out.items[j].k = "xref"}

\* the in-use lines <<section, line>> of the xref sections written
InUseLines ==
  {sl \in UNION {{<<j, l>> : l \in 1..Len(out.items[j].lines)} : j \in XrefItems} :
     out.items[sl[1]].lines[sl[2]].inuse}

\* xref line sl describes the object written as item j
LineOf(sl, j) ==
  LET ln == out.items[sl[1]].lines[sl[2]]
  IN ln.num = out.items[j].num /\ ln.ofs = out.items[j].ofs /\ ln.gen = out.items[j].gen

\* C1: in the file of a completed non-incremental save every in-use xref
\* line gives the offset and the generation of the header of the object of
\* its number, and every object header has exactly one such line in the
\* xref sections written.
C1_XrefMatchesObjects ==
  (pc = "done" /\ ~opts.do_incremental) =>
     /\ \A sl \in InUseLines : \E j \in ObjItems : LineOf(sl, j)
     /\ \A j \in ObjItems : Cardinality({sl \in InUseLines : LineOf(sl, j)}) = 1

\* a linearized save is complete: two xref sections, objects in each
C1_Witness ==
  /\ pc = "done" /\ opts.do_linear /\ opts.do_garbage = 3
  /\ Cardinality(XrefItems) = 2
  /\ \E a, b \in InUseLines : a[1] # b[1]

\* the part of the linearized file an item belongs to, numbered in the
\* order of the layout: header 0, parameters 1, first xref 2, catalogue 3,
\* first page 4, hint stream 5, remaining pages 6, shared 7, other 8,
\* main xref 9
PartOf(it) ==
  IF it.k = "header" THEN 0
  ELSE IF it.k = "xref" THEN (IF it.first THEN 2 ELSE 9)
  ELSE LET u == ws.use[it.num]
       IN IF HasFlag(u, USE_HINTS) THEN 5
          ELSE IF HasFlag(u, USE_PAGE1) THEN 4
          ELSE IF HasFlag(u, USE_CATALOGUE) THEN 3
          ELSE IF HasFlag(u, USE_PARAMS) THEN 1
          ELSE IF HasFlag(u, USE_OTHER_OBJECTS) THEN 8
          ELSE IF HasFlag(u, USE_SHARED) THEN 7
          ELSE 6

\* the parts present in the output
PartsWritten == {PartOf(out.items[j]) : j \in 1..Len(out.items)}

\* C7: in the file of a completed linearized save the items lie at strictly
\* increasing offsets and in the order of the parts: header, parameters,
\* first xref, catalogue objects, first-page objects, hint stream, objects
\* of the remaining pages by ascending page, shared objects, other objects,
\* main xref.
C7_PartsInOrder ==
  (pc = "done" /\ opts.do_linear) =>
     /\ {0, 1, 2, 9} \subseteq PartsWritten
     /\ \A a, b \in 1..Len(out.items) :
          a < b =>
            /\ out.items[a].ofs < out.items[b].ofs
            /\ PartOf(out.items[a]) <= PartOf(out.items[b])
            /\ (PartOf(out.items[a]) = 6 /\ PartOf(out.items[b]) = 6)
                 => PageOf(ws.use[out.items[a].num]) <= PageOf(ws.use[out.items[b].num])

\* every part is present, and the remaining pages are at least two
C7_Witness ==
  /\ pc = "done" /\ opts.do_linear
  /\ PartsWritten = 0..9
  /\ \E a, b \in ObjItems :
        /\ PartOf(out.items[a]) = 6 /\ PartOf(out.items[b]) = 6
        /\ PageOf(ws.use[out.items[a].num]) < PageOf(ws.use[out.items[b].num])

\* C8 as stated: in a linearized output the offset of every object of
\* [1, start) is greater than main_xref_offset.
C8_AfterMainXref ==
  (pc = "done" /\ opts.do_linear) =>
     \A i \in 1..(ws.start - 1) : ws.ofs[i] > ws.main_xref_offset

\* C8: in a linearized output every object written of [1, start) lies after
\* every object written of [start, N) and before the main xref section,
\* which is the last part of the file.
C8_BeforeMainXref ==
  (pc = "done" /\ opts.do_linear) =>
     \A i \in 1..(ws.start - 1) :
        ws.use[i] # 0 =>
          /\ ws.ofs[i] < ws.main_xref_offset
          /\ \A j \in ws.start..(pdf_xref_len(doc.xref) - 1) :
                ws.use[j] # 0 => ws.ofs[j] < ws.ofs[i]
          /\ \E j \in XrefItems :
                ~out.items[j].first /\ out.items[j].ofs = ws.main_xref_offset

\* a linearized save of two pages is complete, with objects below start
C8_Witness ==
  /\ pc = "done" /\ opts.do_linear /\ ws.start > 1
  /\ \E i \in 1..(ws.start - 1) : ws.use[i] # 0

\* C9: every call of padto finds the output position at or before its target.
C9_PadtoWithinBudget ==
  \A i \in 1..Len(hist.padto) : hist.padto[i][1] <= hist.padto[i][2]

\* the entries the free list is to hold, and the one that follows entry k
FreeSet == {k \in 0..(ws.xref_len - 1) : ws.use[k] = 0}
NextFree(k) ==
  LET later == {j \in FreeSet : j > k}
  IN IF later = {} THEN 0 ELSE CHOOSE j \in later : \A i \in later : j <= i

\* C10: when the free list has been built in a non-incremental save, entry 0
\* is free and the ofs of every free entry is the next free entry, that of
\* the last one 0.
C10_FreeListChain ==
  (pc = "xref" /\ ~opts.do_incremental) =>
     /\ 0 \in FreeSet
     /\ \A k \in FreeSet : ws.ofs[k] = NextFree(k)

\* the document read back from the output: the object an in-use xref line
\* leads to, the null object for every other number
OutItemOf(num) ==
  {j \in ObjItems : out.items[j].num = num /\ \E sl \in InUseLines : LineOf(sl, j)}

OutResolve(v) ==
  IF v.t # "ref" THEN v
  ELSE IF OutItemOf(v.n) = {} THEN Null
  ELSE out.items[CHOOSE j \in OutItemOf(v.n) : TRUE].obj

OutIsStream(v) == v.t = "ref" /\ \E j \in OutItemOf(v.n) : out.items[j].stream

\* the same for the document as it was before the save
InResolve(v) ==
  LET r == ResolveVal(hist.doc.xref, v) IN IF r.t = "nil" THEN Null ELSE r

InIsStream(v) == v.t = "ref" /\ pdf_is_stream(hist.doc.xref, v.n)

RECURSIVE SameContent(_, _, _)
\* value a of the input and value b of the output have the same content up
\* to the numbers of the objects: seen holds the pairs of references the
\* walk has met already
SameContent(a, b, seen) ==
  IF a.t = "ref" /\ b.t = "ref" /\ <<a.n, b.n>> \in seen THEN TRUE
  ELSE LET ra == InResolve(a)
           rb == OutResolve(b)
           s2 == IF a.t = "ref" /\ b.t = "ref" THEN seen \cup {<<a.n, b.n>>} ELSE seen
       IN /\ ra.t = rb.t
          /\ InIsStream(a) <=> OutIsStream(b)
          /\ IF ra.t = "dict"
             THEN /\ Len(ra.e) = Len(rb.e)
                  /\ \A i \in 1..Len(ra.e) :
                        /\ pdf_dict_get(rb, ra.e[i].k).t # "nil"
                        /\ SameContent(ra.e[i].v, pdf_dict_get(rb, ra.e[i].k), s2)
             ELSE IF ra.t = "arr"
             THEN /\ Len(ra.e) = Len(rb.e)
                  /\ \A i \in 1..Len(ra.e) : SameContent(ra.e[i], rb.e[i], s2)
             ELSE ra = rb

\* /Root of the trailer that ends the output
OutRoot ==
  LET j == CHOOSE k \in XrefItems : out.items[k].first
  IN pdf_dict_get(out.items[j].trailer, "Root")

\* C2: the output of a completed save that is neither incremental nor
\* linearized reads back as the input: from /Root on, every value has the
\* same content up to the renumbering and merging of objects, and no
\* reference that led to an object leads to null or to something else.
C2_RoundTrip ==
  (pc = "done" /\ ~opts.do_incremental /\ ~opts.do_linear) =>
     SameContent(pdf_dict_get(hist.doc.trailer, "Root"), OutRoot, {})

\* every stream of the document as loaded has the /Length of its data
InputLengthsRight ==
  \A num \in DOMAIN hist.doc.xref :
     pdf_is_stream(hist.doc.xref, num) =>
       InResolve(pdf_dict_get(hist.doc.xref[num].obj, "Length"))
         = IntV(hist.doc.xref[num].rlen)

StreamItems == {j \in ObjItems : out.items[j].stream}

\* C11: in a finished save of a document whose streams had the right
\* /Length, the /Length of every stream object written is the number of
\* bytes written between "stream" and "endstream"
C11_LengthIsDataLen ==
  (pc = "done" /\ InputLengthsRight) =>
     \A j \in StreamItems :
        OutResolve(pdf_dict_get(out.items[j].obj, "Length")) = IntV(out.items[j].datalen)

\* the same for the saves that do not deflate without ASCII-hex encoding
C11_LengthIsDataLenUnlessDeflated ==
  (pc = "done" /\ InputLengthsRight /\ (opts.do_deflate => opts.do_ascii)) =>
     \A j \in StreamItems :
        OutResolve(pdf_dict_get(out.items[j].obj, "Length")) = IntV(out.items[j].datalen)

\* an incremental save of a document without incremental sections
UnchangedIncremental ==
  opts.do_incremental /\ ~ConfigConflict(opts) /\ hist.doc.num_incremental_sections = 0

\* C14 as stated: the incremental save of an unchanged document ends with
\* an appendix without header whose xref has /Prev = the prior startxref
C14_AppendixWithPrev ==
  (UnchangedIncremental /\ pc \in {"returned", "done"}) =>
     /\ \A j \in 1..Len(out.items) : out.items[j].k # "header"
     /\ \E j \in XrefItems :
           pdf_dict_get(out.items[j].trailer, "Prev") = IntV(hist.doc.startxref)

\* C14: the incremental save of an unchanged document returns before the
\* output is opened: nothing is written, the file and the document's xref,
\* trailer and startxref are as they were
C14_NothingWritten ==
  UnchangedIncremental =>
     /\ pc \in {"entry", "returned"}
     /\ out = [NoOutput EXCEPT !.file_size = 1000]
     /\ doc.xref = hist.doc.xref /\ doc.trailer = hist.doc.trailer
     /\ doc.startxref = hist.doc.startxref

C14_Witness == UnchangedIncremental /\ pc = "returned"

\* the call has left pdf_save_document, by a return or by a throw
Exited == pc \in {"done", "returned", "thrown"}

\* C19: the freeze-updates flag is set while the save works and is clear on
\* every exit of the call, the early return and the failed open included
C19_FreezeClearOnExit ==
  /\ Exited => doc.freeze_updates = 0
  /\ pc \notin {"entry", "done", "returned", "thrown"} => doc.freeze_updates = 1

\* the last thing written into the file
LastItem == out.items[Len(out.items)]

LinearDone == pc = "done" /\ opts.do_linear

\* C17 as stated: the file of a linearized save ends with a startxref of 0
C17_LastStartxrefZero ==
  LinearDone => LastItem.k = "xref" /\ LastItem.startxref = 0

\* C17: the file of a linearized save ends with the main xref, whose
\* startxref is the offset of the first-page xref; the startxref of 0 is the
\* one that follows the first-page xref
C17_LastStartxrefIsFirstXref ==
  LinearDone =>
     /\ LastItem.k = "xref" /\ ~LastItem.first
     /\ \A j \in 1..Len(out.items) : out.items[j].ofs <= LastItem.ofs
     /\ LastItem.startxref # 0
     /\ \E j \in XrefItems :
           /\ out.items[j].first /\ out.items[j].startxref = 0
           /\ LastItem.startxref = out.items[j].ofs
     /\ \A j \in XrefItems : out.items[j].first \/ out.items[j] = LastItem

C17_Witness == LinearDone /\ Len(out.items) > 0 /\ LastItem.startxref > 0

\* the page tree root of the output, and the reference to its first page
OutPages == OutResolve(pdf_dict_get(OutResolve(OutRoot), "Pages"))
FirstPageRef == pdf_dict_get(OutPages, "Kids").e[1]

\* the linearization parameter dictionaries written
ParamsItems == {j \in ObjItems : pdf_dict_get(out.items[j].obj, "Linearized").t # "nil"}

\* C16: in the file of a linearized save /O of the linearization parameters
\* is the number of the page object of the first page
C16_OIsFirstPageObject ==
  LinearDone =>
     /\ ParamsItems # {}
     /\ \A j \in ParamsItems :
           pdf_dict_get(out.items[j].obj, "O") = IntV(FirstPageRef.n)

\* markobj has run from the trailer
Swept == pc = "dedupe" /\ (opts.do_garbage >= 1 \/ opts.do_linear)

\* v is a reference that markobj finds duff in the xref table x
DuffRef(x, v) ==
  v.t = "ref" /\ (v.n < 1 \/ v.n >= pdf_xref_len(x) \/ ResolveVal(x, v).t \in {"nil", "null"})

\* the dictionary values or array elements of o
Values(o) ==
  IF o.t = "dict" THEN {o.e[i].v : i \in 1..Len(o.e)}
  ELSE IF o.t = "arr" THEN {o.e[i] : i \in 1..Len(o.e)} ELSE {}

RECURSIVE NoDuffIn(_, _)
NoDuffIn(x, o) == \A v \in Values(o) : ~DuffRef(x, v) /\ NoDuffIn(x, v)

RECURSIVE Cleaned(_, _)
\* o with every duff reference replaced by null, and nothing else changed
Cleaned(x, o) ==
  LET cl(v) == IF DuffRef(x, v) THEN Null ELSE Cleaned(x, v)
  IN IF o.t = "dict" THEN [o EXCEPT !.e = [i \in 1..Len(o.e) |-> [o.e[i] EXCEPT !.v = cl(@)]]]
     ELSE IF o.t = "arr" THEN [o EXCEPT !.e = [i \in 1..Len(o.e) |-> cl(o.e[i])]]
     ELSE o

\* object num of the input, an indirect /Length of a stream replaced by the
\* value it resolves to
LengthResolved(num) ==
  LET o == hist.doc.xref[num].obj
      len == pdf_dict_get(o, "Length")
  IN IF pdf_is_stream(hist.doc.xref, num) /\ len.t = "ref"
        /\ Resolve(hist.doc.xref, len.n).t # "nil"
     THEN pdf_dict_put(o, "Length", Resolve(hist.doc.xref, len.n)) ELSE o

Used == {num \in 1..(pdf_xref_len(doc.xref) - 1) : ws.use[num] # 0}

SweptClean ==
  /\ NoDuffIn(doc.xref, doc.trailer)
  /\ \A num \in Used : NoDuffIn(doc.xref, doc.xref[num].obj)

\* C20 as stated: after markobj no duff reference is left in the trailer or
\* in an object in use, and apart from the duff references replaced by null
\* every reference is as it was
C20_OnlyDuffRefsChanged ==
  Swept =>
     /\ SweptClean
     /\ doc.trailer = Cleaned(hist.doc.xref, hist.doc.trailer)
     /\ \A num \in Used : doc.xref[num].obj = Cleaned(hist.doc.xref, hist.doc.xref[num].obj)

\* C20: after markobj no duff reference is left in the trailer or in an
\* object in use; the duff references are null, an indirect /Length of a
\* stream in use is the value it resolved to, and every other reference is
\* as it was
C20_DuffRefsNullLengthsBaked ==
  Swept =>
     /\ SweptClean
     /\ doc.trailer = Cleaned(hist.doc.xref, hist.doc.trailer)
     /\ \A num \in Used : doc.xref[num].obj = Cleaned(hist.doc.xref, LengthResolved(num))

C20_Witness ==
  /\ Swept
  /\ \E num \in Used : \E v \in Values(hist.doc.xref[num].obj) :
        DuffRef(hist.doc.xref, v) /\ doc.xref[num].obj # hist.doc.xref[num].obj

\* C18: a linearized save writes every object header with generation 0,
\* whatever do_garbage is and whatever the generation of the source entry
\* was, as the same save with do_garbage = 2 does
C18_LinearHeadersGenZero ==
  LinearDone => \A j \in ObjItems : out.items[j].gen = 0

\* what the linearized saves with do_garbage >= 2 do
C18_LinearGarbage2HeadersGenZero ==
  (LinearDone /\ opts.do_garbage >= 2) => \A j \in ObjItems : out.items[j].gen = 0

\* a finished incremental save of a document with incremental sections
IncrementalDone ==
  pc = "done" /\ opts.do_incremental /\ hist.doc.num_incremental_sections >= 1

\* the k-th xref section written, and the item after which its objects start
XrefAt(k) == CHOOSE j \in XrefItems : Cardinality({i \in XrefItems : i <= j}) = k
SectionStart(k) == IF k = 1 THEN 0 ELSE XrefAt(k - 1)

\* the object numbers of the section written k-th: the oldest is written first
SectionIds(k) == hist.doc.incr[hist.doc.num_incremental_sections - k + 1]

\* the maximal runs [from, to) of consecutive numbers of S
Runs(S) ==
  {[from |-> a, to |-> b + 1] : <<a, b>> \in
     {ab \in S \X S : /\ ab[1] <= ab[2]
                      /\ \A m \in ab[1]..ab[2] : m \in S
                      /\ (ab[1] - 1) \notin S /\ (ab[2] + 1) \notin S}}

\* the file as it was, then a newline, then no header
AppendedOnly ==
  /\ out.file_size >= 1000 + 1
  /\ \A j \in 1..Len(out.items) : out.items[j].k # "header" /\ out.items[j].ofs >= 1000 + 1
  /\ Len(out.items) > 0 => out.items[1].ofs = 1000 + 1

\* the objects written for the k-th section are the in-use objects of the
\* section, each once and nothing else
SectionObjects(k) ==
  LET js == (SectionStart(k) + 1)..(XrefAt(k) - 1)
  IN /\ \A j \in js : out.items[j].k = "obj" /\ out.items[j].num \in SectionIds(k)
     /\ \A num \in SectionIds(k) :
           hist.doc.xref[num].type = "n" =>
              Cardinality({j \in js : out.items[j].num = num}) = 1
     /\ \A j \in js : hist.doc.xref[out.items[j].num].type = "n"

\* the subsections of the k-th xref are the maximal runs, in ascending order
SectionSubsects(k) ==
  LET subs == out.items[XrefAt(k)].subs
  IN /\ {subs[i] : i \in 1..Len(subs)} = Runs(SectionIds(k))
     /\ Len(subs) = Cardinality(Runs(SectionIds(k)))
     /\ \A i \in 1..(Len(subs) - 1) : subs[i].to < subs[i + 1].from

\* /Prev of the k-th xref is the startxref that was current before it
SectionPrev(k) ==
  /\ pdf_dict_get(out.items[XrefAt(k)].trailer, "Prev") =
       IntV(IF k = 1 THEN hist.doc.startxref ELSE out.items[XrefAt(k - 1)].ofs)
  /\ out.items[XrefAt(k)].startxref = out.items[XrefAt(k)].ofs

GenericFaults == {"load", "stream"}

\* the objects of the final table that are written and fail to serialize
FailingObjects ==
  {num \in 1..(pdf_xref_len(doc.xref) - 1) :
     ws.use[num] # 0 /\ doc.xref[num].fault \in GenericFaults}

\* the document as loaded has no fault that raises a try-later error
GenericFaultsOnly ==
  \A num \in DOMAIN hist.doc.xref : hist.doc.xref[num].fault \in GenericFaults \cup {"none"}

\* every failing object has been written as the placeholder and no other
PlaceholdersRight ==
  \A j \in ObjItems :
     (out.items[j].text = "placeholder") <=>
        (doc.xref[out.items[j].num].fault \in GenericFaults)

\* C12: with continue_on_error a save of a document of which k objects fail
\* to serialize with a generic error runs to completion in every mode, the
\* failing objects are written as the placeholder and no other, and the
\* error counter ends as k; without continue_on_error the save does not
\* complete
C12_ContinueOnError ==
  /\ (opts.continue_on_error /\ GenericFaultsOnly) => err \notin {"generic", "trylater"}
  /\ (pc = "done" /\ opts.continue_on_error) =>
        PlaceholdersRight /\ ws.errors = Cardinality(FailingObjects)
  /\ (pc = "done" /\ ~opts.continue_on_error) => FailingObjects = {}

\* what holds of the saves that are not linearized
C12_PlainCountsOnce ==
  (pc = "done" /\ ~opts.do_linear) =>
     IF opts.continue_on_error
     THEN PlaceholdersRight /\ ws.errors = Cardinality(FailingObjects)
     ELSE FailingObjects = {}

\* the objects in use for which the lower layer raises a try-later error of
\* one of the faults fs
InUseWith(fs) ==
  {num \in 1..(pdf_xref_len(doc.xref) - 1) : ws.use[num] # 0 /\ doc.xref[num].fault \in fs}

\* a try-later error raised in markref or in the emission ends the save
TryLaterEndsSweepAndEmission ==
  /\ (pc = "dedupe" /\ Collecting) => InUseWith({"sweep_later"}) = {}
  /\ pc = "done" => InUseWith({"load_later", "stream_later"}) = {}
  /\ (err = "generic") => \E num \in DOMAIN hist.doc.xref :
                             hist.doc.xref[num].fault \in GenericFaults

\* C13: a try-later error raised in the sweep, in the search for duplicates
\* or in the emission is not swallowed: the save ends with it and the stage
\* does not go on
C13_TryLaterPropagates ==
  /\ TryLaterEndsSweepAndEmission
  /\ (pc = "compact" /\ opts.do_garbage >= 3) => InUseWith({"dedupe_later"}) = {}

\* objects lo and hi are equal under the comparison of removeduplicateobjs
DedupeEqual(lo, hi) == IsDuplicate(doc.xref, hi, lo, opts.do_garbage)

\* the search for duplicates runs to its end in this step
DedupeStep == pc = "dedupe" /\ opts.do_garbage >= 3 /\ pc' = "compact"

\* C21: after removeduplicateobjs, before the compaction, for every number i
\* in [1,N): renumber[i] <= i and renumber[renumber[i]] = renumber[i]; an
\* object live before is still live exactly when renumber[i] = i; an object
\* dropped as a duplicate maps to the lowest numbered live object equal to
\* it; and no two objects that remain live are equal under the comparison.
C21_DedupeMap ==
  [][DedupeStep =>
       \A i \in 1..(pdf_xref_len(doc.xref) - 1) :
          /\ ws'.renumber[i] <= i
          /\ ws'.renumber[ws'.renumber[i]] = ws'.renumber[i]
          /\ ws.use[i] # 0 => ((ws'.use[i] # 0) <=> (ws'.renumber[i] = i))
          /\ (ws.use[i] # 0 /\ ws'.use[i] = 0) =>
                /\ ws'.renumber[i] >= 1
                /\ ws'.use[ws'.renumber[i]] # 0
                /\ DedupeEqual(ws'.renumber[i], i)
                /\ \A k \in 1..(i - 1) :
                      (ws'.use[k] # 0 /\ DedupeEqual(k, i)) => ws'.renumber[i] <= k
          /\ \A k \in 1..(i - 1) :
                (ws'.use[k] # 0 /\ ws'.use[i] # 0) => ~DedupeEqual(k, i)]_vars

\* two objects have been dropped for one and the same lower numbered object,
\* and another pair of objects in use was compared and kept
C21_Witness ==
  /\ pc = "compact" /\ opts.do_garbage >= 3
  /\ \E i, j \in 1..(pdf_xref_len(doc.xref) - 1) :
        /\ i < j /\ ws.use[i] = 0 /\ ws.use[j] = 0
        /\ ws.renumber[i] < i /\ ws.renumber[j] = ws.renumber[i]
        /\ ws.use[ws.renumber[i]] # 0

RECURSIVE RenumberedAs(_, _)
\* new is old with every reference rewritten once: to renumber[o], or to
\* null when o is out of range or renumber[o] = 0
RenumberedAs(old, new) ==
  IF pdf_is_indirect(old)
  THEN new = (IF old.n >= pdf_xref_len(doc.xref) \/ old.n <= 0 \/ ws.renumber[old.n] = 0
              THEN Null ELSE Ref(ws.renumber[old.n]))
  ELSE IF pdf_is_dict(old) \/ pdf_is_array(old)
  THEN /\ new.t = old.t /\ Len(new.e) = Len(old.e)
       /\ \A i \in 1..Len(old.e) :
             IF pdf_is_dict(old)
             THEN new.e[i].k = old.e[i].k /\ RenumberedAs(old.e[i].v, new.e[i].v)
             ELSE RenumberedAs(old.e[i], new.e[i])
  ELSE new = old

\* the old numbers of the objects that renumberobjs keeps
Live == {i \in 1..(pdf_xref_len(doc.xref) - 1) : ws.use[i] # 0}

RenumberStep == pc = "renumber" /\ Renumbering

\* what renumberobjs does to the tables: the new entry renumber[i] is the
\* old entry i, the length, use[] re-indexed, renumber[] the identity
TablesRenumbered ==
  /\ \A i \in Live :
        /\ ws.renumber[i] >= 1 /\ ws.renumber[i] < pdf_xref_len(doc'.xref)
        /\ [doc'.xref[ws.renumber[i]] EXCEPT !.obj = Nil] = [doc.xref[i] EXCEPT !.obj = Nil]
        /\ ws'.use[ws.renumber[i]] = ws.use[i]
  /\ pdf_xref_len(doc'.xref) = 1 + LargestLive
  /\ \A to \in 1..(ws.cap - 1) : (\A i \in Live : ws.renumber[i] # to) => ws'.use[to] = 0
  /\ \A i \in 1..(pdf_xref_len(doc.xref) - 1) : ws'.renumber[i] = i

\* C22: after renumberobjs every reference in the trailer and in every kept
\* object has been rewritten once, to renumber[o] or to null when o is out
\* of range or renumber[o] = 0; the new entry renumber[i] holds the contents
\* of the old entry i of every live i; the new length is one more than the
\* largest new number of a live object; use[] is indexed by the new numbers
\* and renumber[] is the identity.
C22_Renumbered ==
  [][RenumberStep =>
       /\ RenumberedAs(doc.trailer, doc'.trailer)
       /\ \A i \in Live : RenumberedAs(doc.xref[i].obj, doc'.xref[ws.renumber[i]].obj)
       /\ TablesRenumbered]_vars

\* the same, but for the objects that are themselves a reference
C22_RenumberedInside ==
  [][RenumberStep =>
       /\ RenumberedAs(doc.trailer, doc'.trailer)
       /\ \A i \in Live :
             IF pdf_is_indirect(doc.xref[i].obj)
             THEN doc'.xref[ws.renumber[i]].obj = Ref(ws.renumber[i])
             ELSE RenumberedAs(doc.xref[i].obj, doc'.xref[ws.renumber[i]].obj)
       /\ TablesRenumbered]_vars

\* the classifier has run: linearize is done and use[] holds, under the new
\* numbers, the values that mark_trailer gave
Classified == pc = "write" /\ opts.do_linear

\* C23: after the page classifier has run, no use[] entry has both the PAGE1
\* bit and a non-zero page index in the bits from 8 up.
C23_Page1Exclusive ==
  Classified =>
     \A i \in 1..(pdf_xref_len(doc.xref) - 1) :
        ~(HasFlag(ws.use[i], USE_PAGE1) /\ PageBits(ws.use[i]) # 0)

\* the same for the documents of one page
C23_OnePageExclusive ==
  (Classified /\ ws.page_count = 1) =>
     \A i \in 1..(pdf_xref_len(doc.xref) - 1) :
        ~(HasFlag(ws.use[i], USE_PAGE1) /\ PageBits(ws.use[i]) # 0)

\* the numbers of the page objects and of the page tree nodes
PageNums ==
  {i \in 1..(pdf_xref_len(doc.xref) - 1) :
     pdf_name_eq(pdf_dict_get(doc.xref[i].obj, "Type"), "Page")}
TreeNodes ==
  {i \in 1..(pdf_xref_len(doc.xref) - 1) :
     pdf_name_eq(pdf_dict_get(doc.xref[i].obj, "Type"), "Pages")}

RECURSIVE Subtree(_)
\* the objects reached from the set s without going up into the page tree
Subtree(s) ==
  LET more == UNION {RefsOf(doc.xref[i].obj) : i \in s} \ TreeNodes
  IN IF more \subseteq s THEN s ELSE Subtree(s \cup more)

\* the pages from which object i is reached
PagesReaching(i) == {p \in PageNums : i \in Subtree({p})}

\* C24: after the page classifier has run, use[i] has the SHARED bit exactly
\* when object i is referenced from two or more distinct pages.
C24_SharedIffTwoPages ==
  Classified =>
     \A i \in 1..(pdf_xref_len(doc.xref) - 1) :
        HasFlag(ws.use[i], USE_SHARED) <=> Cardinality(PagesReaching(i)) >= 2

\* an object reached from one single page only is not SHARED
C24_OnePageNotShared ==
  Classified =>
     \A i \in 1..(pdf_xref_len(doc.xref) - 1) :
        HasFlag(ws.use[i], USE_SHARED) => Cardinality(PagesReaching(i)) >= 2

\* an object reached from two pages is SHARED
C24_TwoPagesShared ==
  Classified =>
     \A i \in 1..(pdf_xref_len(doc.xref) - 1) :
        Cardinality(PagesReaching(i)) >= 2 => HasFlag(ws.use[i], USE_SHARED)

\* an object reached from three pages is SHARED
C24_ThreePagesShared ==
  Classified =>
     \A i \in 1..(pdf_xref_len(doc.xref) - 1) :
        Cardinality(PagesReaching(i)) >= 3 => HasFlag(ws.use[i], USE_SHARED)

\* the numbers of the objects of the linearized document, and the use[]
\* values the classifier gave them
SortedIds == 1..(pdf_xref_len(doc.xref) - 1)
UseValues == {ws.use[i] : i \in SortedIds}

OrderTotal == \A u, v \in UseValues : order_ge(u, v) \/ order_ge(v, u)
OrderTransitive ==
  \A u, v, w \in UseValues : (order_ge(u, v) /\ order_ge(v, w)) => order_ge(u, w)

\* the id list handed to heap_sort (0-based), the ids taken in ascending
\* order from r + 1 on, or in descending order
Rotated(r) ==
  [i \in 0..(Cardinality(SortedIds) - 1) |-> ((i + r) % Cardinality(SortedIds)) + 1]
Reversed(r) ==
  [i \in 0..(Cardinality(SortedIds) - 1) |->
     Cardinality(SortedIds) - ((i + r) % Cardinality(SortedIds))]

\* list is a permutation of the ids in which the later element is
\* order_ge the earlier one, for every pair of positions
SortedPermutation(list) ==
  /\ {list[i] : i \in DOMAIN list} = SortedIds
  /\ \A i, j \in DOMAIN list : i < j => order_ge(ws.use[list[j]], ws.use[list[i]])

\* heap_sort sorts the ids, in whichever order they are handed in
HeapSortSorts ==
  \A r \in 0..(Cardinality(SortedIds) - 1) :
     /\ SortedPermutation(heap_sort(Rotated(r), Cardinality(SortedIds), ws.use))
     /\ SortedPermutation(heap_sort(Reversed(r), Cardinality(SortedIds), ws.use))

\* C25: order_ge is a total preorder on the use[] values the classifier
\* produces (any two values are comparable, and the relation is transitive),
\* and so heap_sort leaves a permutation of the id list in which
\* order_ge(use[list[j]], use[list[i]]) holds for all positions i < j.
C25_OrderGeSorts ==
  Classified =>
     /\ OrderTotal
     /\ OrderTransitive
     /\ \A a, b \in SortedIds : a < b => order_ge(ws.use[b], ws.use[a])
     /\ HeapSortSorts

\* what holds: two distinct values are comparable; the list that linearize
\* sorted is ordered; and where no value mixes PAGE1 with a page index the
\* relation is transitive and heap_sort sorts every list
C25_SortsWithoutMixedTags ==
  Classified =>
     /\ \A u, v \in UseValues : u # v => (order_ge(u, v) \/ order_ge(v, u))
     /\ \A a, b \in SortedIds : a < b => order_ge(ws.use[b], ws.use[a])
     /\ \A r \in 0..(Cardinality(SortedIds) - 1) :
           LET sorted == heap_sort(Rotated(r), Cardinality(SortedIds), ws.use)
           IN {sorted[i] : i \in DOMAIN sorted} = SortedIds
     /\ (\A u \in UseValues : ~(HasFlag(u, USE_PAGE1) /\ PageBits(u) # 0))
           => (OrderTransitive /\ HeapSortSorts)

\* the list of page p (1-based slot of pol) as a set, and the objects that
\* mark_all inserted for the page: those reached from the page object
PageListed(p) == {ws.pol[p].object[j] : j \in 1..Len(ws.pol[p].object)}
PageInserted(p) == Subtree({ws.pol[p].page_object_number})

PageListsAscending ==
  \A p \in 1..Len(ws.pol) :
     \A a, b \in 1..Len(ws.pol[p].object) :
        a < b => ws.pol[p].object[a] < ws.pol[p].object[b]

\* C26: after page_objects_list_sort_and_dedupe the list of every page is
\* strictly ascending and holds exactly the distinct ids inserted for the
\* page: none is lost and none appears twice.
C26_PageListsExact ==
  Classified =>
     /\ PageListsAscending
     /\ \A p \in 1..Len(ws.pol) : PageListed(p) = PageInserted(p)

\* what holds: the lists are strictly ascending and hold inserted ids only;
\* the one id that can be missing is the largest; a page that refers to no
\* object twice has its list complete
C26_PageListsLoseOnlyLast ==
  Classified =>
     /\ PageListsAscending
     /\ \A p \in 1..Len(ws.pol) :
           /\ PageListed(p) \subseteq PageInserted(p)
           /\ PageInserted(p) \ PageListed(p) \subseteq {SetMax(PageInserted(p))}
           /\ pdf_dict_get(doc.xref[ws.pol[p].page_object_number].obj, "Aux").t = "nil"
                 => PageListed(p) = PageInserted(p)

\* C27: when the copy-down-resources pass (lpr) and the classifier pass
\* (mark_trailer and its helpers) finish, by normal return or by a thrown
\* error, no object is left with its mark set.
C27_NoMarkLeft ==
  [][(pc = "linearize" /\ opts.do_linear) => doc'.marks = {}]_vars

\* the same for the ways out other than an error thrown in lpr: lpr
\* returned and the classifier returned or threw
C27_NoMarkLeftByClassifier ==
  [][(pc = "linearize" /\ opts.do_linear /\ doc'.resources_localised = 1)
        => doc'.marks = {}]_vars

\* an error thrown while the classifier inserts an object of the page has
\* ended the save, and no mark is left
C27_ClassifierThrew ==
  /\ pc = "caught" /\ err = "memory" /\ doc.resources_localised = 1
  /\ doc.marks = {}

\* the lines <<section, line>> of the xref sections written
XrefLines ==
  UNION {{<<j, l>> : l \in 1..Len(out.items[j].lines)} : j \in XrefItems}

\* the lines written for entry 0
ZeroLines == {sl \in XrefLines : out.items[sl[1]].lines[sl[2]].num = 0}

\* the construction of the free list runs in this step
FreeListStep == pc = "freelist" /\ pc' = "xref"

\* C28: the construction of the free list adds one, modulo 65535, to the
\* generation of each free entry; every generation written into an xref
\* section lies in 0..65535; and a completed save that is not incremental
\* writes entry 0 as a free entry of generation 65535.
C28_Generations ==
  /\ \A sl \in XrefLines : out.items[sl[1]].lines[sl[2]].gen \in 0..GEN_MAX
  /\ (pc = "done" /\ ~opts.do_incremental) =>
        /\ ZeroLines # {}
        /\ \A sl \in ZeroLines :
              LET ln == out.items[sl[1]].lines[sl[2]]
              IN ~ln.inuse /\ ln.gen = GEN_MAX

\* the free list adds one to the generation of each free entry and leaves
\* the others alone
C28_FreeListIncrements ==
  [][FreeListStep =>
       \A k \in 0..(ws.xref_len - 1) :
          ws'.gen[k] = IF ws'.use[k] = 0 THEN ws.gen[k] + 1 ELSE ws.gen[k]]_vars

\* a completed save that is not incremental writes entry 0 as a free entry,
\* of generation 1 when it is linearized and of generation 65536 otherwise;
\* every generation a linearized or an incremental save writes lies in
\* 0..65535
C28_EntryZero ==
  /\ (pc = "done" /\ ~opts.do_incremental) =>
        /\ ZeroLines # {}
        /\ \A sl \in ZeroLines :
              LET ln == out.items[sl[1]].lines[sl[2]]
              IN ~ln.inuse /\ ln.gen = IF opts.do_linear THEN 1 ELSE GEN_MAX + 1
  /\ (opts.do_linear \/ opts.do_incremental) =>
        \A sl \in XrefLines : out.items[sl[1]].lines[sl[2]].gen \in 0..GEN_MAX

\* a save with each of the modes has been completed
C28_PlainDone == pc = "done" /\ ~opts.do_incremental /\ ~opts.do_linear /\ opts.do_garbage = 0
C28_GarbageDone == pc = "done" /\ ~opts.do_incremental /\ ~opts.do_linear /\ opts.do_garbage >= 2
C28_LinearDone == pc = "done" /\ opts.do_linear

\* object num of the table x is a stream whose /Length is the stream itself
SelfLength(x, num) ==
  pdf_is_stream(x, num) /\ pdf_dict_get(x[num].obj, "Length") = Ref(num)

\* objects a and b of the table x are dictionaries on a cycle of references
\* (a = b: a dictionary that refers to itself)
OnRing(x, a, b) ==
  /\ x[a].type = "n" /\ pdf_dict_get(x[a].obj, "K") = Ref(b)
  /\ x[b].type = "n" /\ pdf_dict_get(x[b].obj, "K") = Ref(a)

\* C29: on every object graph, cycles of references included, the sweep
\* (markobj) and the classifier (mark_trailer, mark_root, mark_pages,
\* mark_all) come to an end: neither runs out of stack.
C29_TraversalsTerminate == pc # "crashed"

\* the sweep runs out of stack only when an object it reaches is a stream
\* whose /Length is the stream itself; the classifier never does
C29_OnlySelfLengthRecurses ==
  [][(pc' = "crashed") =>
        /\ pc = "sweep"
        /\ \E num \in 1..(pdf_xref_len(doc.xref) - 1) : SelfLength(doc.xref, num)]_vars

\* the sweep has come to an end on a ring of two dictionaries and on a
\* dictionary that refers to itself, all of them marked
C29_SweptRing ==
  /\ pc = "dedupe" /\ opts.do_garbage >= 1
  /\ \E a \in 1..(pdf_xref_len(doc.xref) - 1) :
        \E b \in {a, a + 1} \cap DOMAIN doc.xref :
           OnRing(doc.xref, a, b) /\ ws.use[a] # 0 /\ ws.use[b] # 0

\* the classifier has come to an end on a ring of two dictionaries
C29_ClassifiedRing ==
  /\ Classified
  /\ \E a, b \in 1..(pdf_xref_len(doc.xref) - 1) : a # b /\ OnRing(doc.xref, a, b)

\* the classifier has come to an end on a dictionary that refers to itself
C29_ClassifiedSelf ==
  /\ Classified
  /\ \E a \in 1..(pdf_xref_len(doc.xref) - 1) : OnRing(doc.xref, a, a)

\* the sweep passes by a stream whose /Length is the stream itself when no
\* reference leads to the stream
C29_SelfLengthUnreached ==
  /\ pc = "dedupe" /\ opts.do_garbage >= 1
  /\ \E num \in 1..(pdf_xref_len(doc.xref) - 1) : SelfLength(doc.xref, num)

\* the xref length at save entry
EntryLen == pdf_xref_len(hist.doc.xref)

\* the document at save entry holds a stream whose /Length is a reference to
\* a number at or beyond the end of the write-state arrays
LengthBeyondArrays ==
  \E num \in 1..(EntryLen - 1) :
     /\ pdf_is_stream(hist.doc.xref, num)
     /\ pdf_is_indirect(pdf_dict_get(hist.doc.xref[num].obj, "Length"))
     /\ pdf_dict_get(hist.doc.xref[num].obj, "Length").n >= EntryLen + ExtraSlots

\* C30: during a save the write-state arrays (use, ofs, gen, renumber,
\* rev_renumber, rev_gen) have N+3 slots, N being the xref length at save
\* entry, and no slot outside them is read or written: not for a stream
\* whose indirect /Length names a number out of range, not for the two
\* linearization objects, not for the objects of the xref streams of an
\* incremental save.
C30_IndexInRange ==
  ws.alloc =>
     /\ ws.cap = EntryLen + ExtraSlots
     /\ ~ws.oob
     /\ ws.params_num < ws.cap /\ ws.hint_num < ws.cap

\* the arrays have N+3 slots and the two linearization objects have numbers
\* inside them; a slot outside the arrays is written only by markref for an
\* indirect /Length that names a number of N+3 or more, and by
\* writexrefstream for the object of the fourth incremental section
C30_BeyondOnlyByLengthOrFourthSection ==
  ws.alloc =>
     /\ ws.cap = EntryLen + ExtraSlots
     /\ ws.params_num < ws.cap /\ ws.hint_num < ws.cap
     /\ ws.oob =>
           \/ LengthBeyondArrays /\ (opts.do_garbage >= 1 \/ opts.do_linear)
           \/ /\ opts.do_incremental /\ hist.doc.has_xref_streams
              /\ hist.doc.num_incremental_sections >= ExtraSlots + 1

\* an incremental save with xref streams of three sections is completed:
\* three objects were created and each has its slot
C30_ThreeSectionsInRange ==
  /\ pc = "done" /\ doc.has_xref_streams /\ doc.num_incremental_sections = 3
  /\ pdf_xref_len(doc.xref) = EntryLen + 3
  /\ \A num \in EntryLen..(EntryLen + 2) : ws.use[num] = 1
  /\ ~ws.oob

\* the two linearization objects have been added
C30_LinearObjectsAdded ==
  /\ pc = "write" /\ opts.do_linear
  /\ ws.params_num >= 1 /\ ws.hint_num = pdf_xref_len(doc.xref) - 1
  /\ ws.use[ws.hint_num] # 0

\* the sweep has met a stream whose /Length names a number beyond the arrays
C30_LengthBeyondSwept == pc = "dedupe" /\ LengthBeyondArrays /\ ws.oob

\* the object of the fourth incremental section has been created
C30_FourthSectionWritten ==
  /\ pc = "finish" /\ doc.has_xref_streams /\ ws.oob
  /\ pdf_xref_len(doc.xref) = EntryLen + 4
=============================================================================
